---- MODULE Spec2Model ----
(***************************************************************************)
(* Script-to-media assembly pipeline of create-video.                      *)
(*                                                                         *)
(*   video_engine.py  resolve_character_key, get_active_roster,            *)
(*                    generate_audio, generate_frames, assemble_video,     *)
(*                    cleanup_workspace                                    *)
(*   app.py           generate_video (interactive caller), main            *)
(*   batch_gen.py     main (batch caller)                                  *)
(*                                                                         *)
(* Strings are sequences of one-character strings so that lower() and      *)
(* startswith() are computed character by character.  Python's None is the *)
(* one-element sequence None, which no string of characters equals.        *)
(***************************************************************************)
EXTENDS Integers, Sequences, FiniteSets, TLC

\* ------------------------------------------------------------------------
\* Bounds
\* ------------------------------------------------------------------------
MaxKeys == 2        \* configured character keys in one configuration
MaxSpeakers == 2    \* lines of a script handed to get_active_roster
MaxLines == 2       \* lines of a script handed to assemble_video
MaxScript == 2      \* lines of the script a whole run starts from
MaxDur == 2         \* length of one audio file, in whole time units
MaxRoster == 3      \* members of a roster whose every slot is laid out
MaxOffset == 2      \* pixels between the origin of a text and its ink

\* ------------------------------------------------------------------------
\* Strings
\* ------------------------------------------------------------------------
None == <<"<None>">>
EmptyStr == <<>>

UpperChars == <<"A","B","C","D","E","F","G","H","I","J","K","L","M",
                "N","O","P","Q","R","S","T","U","V","W","X","Y","Z">>
LowerChars == <<"a","b","c","d","e","f","g","h","i","j","k","l","m",
                "n","o","p","q","r","s","t","u","v","w","x","y","z">>

\* str.lower() on one character
LowerChar(c) ==
    IF \E i \in DOMAIN UpperChars : UpperChars[i] = c
    THEN LowerChars[CHOOSE i \in DOMAIN UpperChars : UpperChars[i] = c]
    ELSE c

\* str.lower()
Lower(s) == [i \in DOMAIN s |-> LowerChar(s[i])]

\* str.startswith(prefix)
StartsWith(s, prefix) ==
    /\ Len(prefix) <= Len(s)
    /\ SubSeq(s, 1, Len(prefix)) = prefix

\* Python truthiness of an Optional[str]: None and "" are falsy
Truthy(s) == s /= None /\ s /= EmptyStr

Narrator == <<"N","a","r","r","a","t","o","r">>
narratorLc == <<"n","a","r","r","a","t","o","r">>
NarratorBob == <<"N","a","r","r","a","t","o","r"," ","B","o","b">>
Herbert == <<"H","e","r","b","e","r","t">>
HERBERT == <<"H","E","R","B","E","R","T">>
herbertLc == <<"h","e","r","b","e","r","t">>
Her == <<"H","e","r">>
HerbertWalker == <<"H","e","r","b","e","r","t"," ","W","a","l","k","e","r">>
Margot == <<"M","a","r","g","o","t">>
Mar == <<"M","a","r">>
Unknown == <<"U","n","k","n","o","w","n">>

\* speaker names a script line can carry (line.get('speaker') may be None)
Names == { None, EmptyStr, Narrator, narratorLc, NarratorBob, Herbert,
           HERBERT, herbertLc, Her, HerbertWalker, Margot, Mar, Unknown }

\* keys the "characters" section of config.json can hold
KeyUniverse == { Herbert, Margot, HerbertWalker, Her, herbertLc,
                 Narrator, EmptyStr }

Range(f) == { f[i] : i \in DOMAIN f }

\* a dict's keys in insertion order: distinct keys, at most n of them
RECURSIVE KeyLists(_)
KeyLists(n) ==
    IF n = 0 THEN { <<>> }
    ELSE LET shorter == KeyLists(n - 1)
         IN  shorter \cup { Append(ks, k) : ks \in shorter, k \in KeyUniverse }

Configs == { ks \in KeyLists(MaxKeys) : Cardinality(Range(ks)) = Len(ks) }

\* speakers of the lines of a script handed to get_active_roster
Speakers == { None, Narrator, narratorLc, NarratorBob, Herbert, HerbertWalker,
             Margot }

RECURSIVE SpeakerLists(_)
SpeakerLists(n) ==
    IF n = 0 THEN { <<>> }
    ELSE LET shorter == SpeakerLists(n - 1)
         IN  shorter \cup { Append(sp, s) : sp \in shorter, s \in Speakers }

\* ------------------------------------------------------------------------
\* resolve_character_key
\* ------------------------------------------------------------------------
\* "for key in valid_keys: if <test>: return key" from position i on
RECURSIVE FirstCaseInsensitive(_, _, _)
FirstCaseInsensitive(name, keys, i) ==
    IF i > Len(keys) THEN None
    ELSE IF Lower(keys[i]) = Lower(name) THEN keys[i]
    ELSE FirstCaseInsensitive(name, keys, i + 1)

RECURSIVE FirstNameStartsWithKey(_, _, _)
FirstNameStartsWithKey(name, keys, i) ==
    IF i > Len(keys) THEN None
    ELSE IF StartsWith(Lower(name), Lower(keys[i])) THEN keys[i]
    ELSE FirstNameStartsWithKey(name, keys, i + 1)

RECURSIVE FirstKeyStartsWithName(_, _, _)
FirstKeyStartsWithName(name, keys, i) ==
    IF i > Len(keys) THEN None
    ELSE IF StartsWith(Lower(keys[i]), Lower(name)) THEN keys[i]
    ELSE FirstKeyStartsWithName(name, keys, i + 1)

\* mutant: the partial-match strategies are tried before the case-insensitive
\* one
resolve_character_key_PartialFirst(name, keys) ==
    IF ~Truthy(name) \/ name = Narrator THEN None
    ELSE IF name \in Range(keys) THEN name
    ELSE IF FirstNameStartsWithKey(name, keys, 1) /= None
         THEN FirstNameStartsWithKey(name, keys, 1)
    ELSE IF FirstCaseInsensitive(name, keys, 1) /= None
         THEN FirstCaseInsensitive(name, keys, 1)
    ELSE FirstKeyStartsWithName(name, keys, 1)

resolve_character_key(name, keys) ==
    IF ~Truthy(name) \/ name = Narrator THEN None
    ELSE IF name \in Range(keys) THEN name
    ELSE IF FirstCaseInsensitive(name, keys, 1) /= None
         THEN FirstCaseInsensitive(name, keys, 1)
    ELSE IF FirstNameStartsWithKey(name, keys, 1) /= None
         THEN FirstNameStartsWithKey(name, keys, 1)
    ELSE FirstKeyStartsWithName(name, keys, 1)

\* ------------------------------------------------------------------------
\* get_active_roster: the set built by the loop (list(roster) orders it)
\* ------------------------------------------------------------------------
RECURSIVE RosterLoop(_, _, _, _)
RosterLoop(speakers, keys, i, roster) ==
    IF i > Len(speakers) THEN roster
    ELSE LET speaker == speakers[i]
             resolved_key == resolve_character_key(speaker, keys)
         IN  IF Truthy(speaker) /\ speaker /= Narrator /\ Truthy(resolved_key)
             THEN RosterLoop(speakers, keys, i + 1, roster \cup {resolved_key})
             ELSE RosterLoop(speakers, keys, i + 1, roster)

get_active_roster(speakers, keys) == RosterLoop(speakers, keys, 1, {})

\* ------------------------------------------------------------------------
\* Files.  A path is <<directory, file stem, line index>>.
\* ------------------------------------------------------------------------
OutputDir == "output"

FramePath(dir, i) == <<dir, "frame", i>>
AudioPath(dir, i) == <<dir, "audio", i>>
\* os.path.join(temp_dir, f"segment_{i}.mp4"), temp_dir = <output_dir>/temp
SegmentPath(output_dir, i) == <<output_dir, "temp/segment", i>>
\* os.path.join(temp_dir, "file_list.txt")
ListPath(output_dir) == <<output_dir, "temp/file_list", 0>>
\* os.path.join(output_dir, output_filename)
FinalPath(output_dir, output_filename) == <<output_dir, output_filename, 0>>

\* ------------------------------------------------------------------------
\* assemble_video
\* ------------------------------------------------------------------------
\* A script line is a Python dict: a function from the keys it holds to
\* their values.  dict.get(key) is None for an absent key.
Get(line, key) == IF key \in DOMAIN line THEN line[key] ELSE None

\* line[key] = value
Put(line, key, value) ==
    [ k \in (DOMAIN line) \cup {key} |-> IF k = key THEN value ELSE line[k] ]

\* line.get('audio_file') or line.get('audio_path')
LineAudio(line) ==
    IF Truthy(Get(line, "audio_file")) THEN Get(line, "audio_file")
    ELSE Get(line, "audio_path")

LoopStart ==
    [ segment_files |-> <<>>,   \* the local list segment_files
      visited       |-> <<>>,   \* line indices whose iteration ran
      warnings      |-> 0,      \* logger.warning calls
      errors        |-> 0,      \* logger.error calls
      progress      |-> <<>> ]  \* progress_callback arguments <<i + 1, total>>

\* mutant: the segment is appended to segment_files before stream.run, so a
\* failed encode stays listed
RECURSIVE AssembleLoop_AppendBeforeRun(_, _, _, _, _)
AssembleLoop_AppendBeforeRun(script, output_dir, encodeOk, pos, acc) ==
    IF pos > Len(script) THEN acc
    ELSE
      LET i == pos - 1
          line == script[pos]
          seen == [acc EXCEPT !.visited = Append(@, i)]
      IN  IF ~Truthy(Get(line, "image_path")) \/ ~Truthy(LineAudio(line))
          THEN AssembleLoop_AppendBeforeRun(script, output_dir, encodeOk, pos + 1,
                   [seen EXCEPT !.warnings = @ + 1])
          ELSE IF i \in encodeOk
          THEN AssembleLoop_AppendBeforeRun(script, output_dir, encodeOk, pos + 1,
                   [seen EXCEPT
                      !.segment_files = Append(@, SegmentPath(output_dir, i)),
                      !.progress = Append(@, <<i + 1, Len(script)>>)])
          ELSE AssembleLoop_AppendBeforeRun(script, output_dir, encodeOk, pos + 1,
                   [seen EXCEPT
                      !.segment_files = Append(@, SegmentPath(output_dir, i)),
                      !.errors = @ + 1])

\* mutant: a failed encode leaves the loop (break instead of continue)
RECURSIVE AssembleLoop_BreakOnError(_, _, _, _, _)
AssembleLoop_BreakOnError(script, output_dir, encodeOk, pos, acc) ==
    IF pos > Len(script) THEN acc
    ELSE
      LET i == pos - 1
          line == script[pos]
          seen == [acc EXCEPT !.visited = Append(@, i)]
      IN  IF ~Truthy(Get(line, "image_path")) \/ ~Truthy(LineAudio(line))
          THEN AssembleLoop_BreakOnError(script, output_dir, encodeOk, pos + 1,
                   [seen EXCEPT !.warnings = @ + 1])
          ELSE IF i \in encodeOk
          THEN AssembleLoop_BreakOnError(script, output_dir, encodeOk, pos + 1,
                   [seen EXCEPT
                      !.segment_files = Append(@, SegmentPath(output_dir, i)),
                      !.progress = Append(@, <<i + 1, Len(script)>>)])
          ELSE [seen EXCEPT !.errors = @ + 1]

\* mutant: a line with a missing asset is logged with logger.error
RECURSIVE AssembleLoop_SkipIsError(_, _, _, _, _)
AssembleLoop_SkipIsError(script, output_dir, encodeOk, pos, acc) ==
    IF pos > Len(script) THEN acc
    ELSE
      LET i == pos - 1
          line == script[pos]
          seen == [acc EXCEPT !.visited = Append(@, i)]
      IN  IF ~Truthy(Get(line, "image_path")) \/ ~Truthy(LineAudio(line))
          THEN AssembleLoop_SkipIsError(script, output_dir, encodeOk, pos + 1,
                   [seen EXCEPT !.errors = @ + 1])
          ELSE IF i \in encodeOk
          THEN AssembleLoop_SkipIsError(script, output_dir, encodeOk, pos + 1,
                   [seen EXCEPT
                      !.segment_files = Append(@, SegmentPath(output_dir, i)),
                      !.progress = Append(@, <<i + 1, Len(script)>>)])
          ELSE AssembleLoop_SkipIsError(script, output_dir, encodeOk, pos + 1,
                   [seen EXCEPT !.errors = @ + 1])

\* the loop "for i, line in enumerate(parsed_script)"; encodeOk is the set of
\* line indices at which stream.run does not raise
RECURSIVE AssembleLoop(_, _, _, _, _)
AssembleLoop(script, output_dir, encodeOk, pos, acc) ==
    IF pos > Len(script) THEN acc
    ELSE
      LET i == pos - 1
          line == script[pos]
          seen == [acc EXCEPT !.visited = Append(@, i)]
      IN  IF ~Truthy(Get(line, "image_path")) \/ ~Truthy(LineAudio(line))
          THEN \* logger.warning("Skipping line ..."); continue
               AssembleLoop(script, output_dir, encodeOk, pos + 1,
                   [seen EXCEPT !.warnings = @ + 1])
          ELSE IF i \in encodeOk
          THEN \* stream.run; segment_files.append; progress_callback
               AssembleLoop(script, output_dir, encodeOk, pos + 1,
                   [seen EXCEPT
                      !.segment_files = Append(@, SegmentPath(output_dir, i)),
                      !.progress = Append(@, <<i + 1, Len(script)>>)])
          ELSE \* except: logger.error(...); continue
               AssembleLoop(script, output_dir, encodeOk, pos + 1,
                   [seen EXCEPT !.errors = @ + 1])

\* the whole call: what it returns, logs and writes.  concatOk: the concat
\* run does not raise.
assemble_video(script, output_dir, output_filename, encodeOk, concatOk) ==
    LET loop == AssembleLoop(script, output_dir, encodeOk, 1, LoopStart)
    IN  IF loop.segment_files = <<>>
        THEN \* logger.error("No segments created."); return None
             [ ret |-> None, loop |-> loop, errors |-> loop.errors + 1,
               written |-> {}, list |-> None ]
        ELSE IF concatOk
        THEN [ ret |-> FinalPath(output_dir, output_filename), loop |-> loop,
               errors |-> loop.errors,
               written |-> Range(loop.segment_files)
                             \cup { ListPath(output_dir),
                                    FinalPath(output_dir, output_filename) },
               list |-> loop.segment_files ]
        ELSE \* except ffmpeg.Error: logger.error(...); return None
             [ ret |-> None, loop |-> loop, errors |-> loop.errors + 1,
               written |-> Range(loop.segment_files) \cup { ListPath(output_dir) },
               list |-> loop.segment_files ]

\* ------------------------------------------------------------------------
\* Lengths of the media assemble_video builds.  A stream is [loop, length]:
\* whether the input repeats for ever, and the length of one pass.
\* ------------------------------------------------------------------------
\* ffmpeg.input(image_path, loop=1): a still image, repeated
ImageInput == [ loop |-> TRUE, length |-> 0 ]

\* ffmpeg.input(audio_path)
AudioInput(length) == [ loop |-> FALSE, length |-> length ]

Shortest_NoLoop(video, audio) ==
    IF video.length < audio.length THEN video.length ELSE audio.length

\* shortest=None, the flag -shortest: the output ends with its shortest
\* input; an input that repeats for ever never ends
Shortest(video, audio) ==
    IF video.loop THEN audio.length
    ELSE IF audio.loop THEN video.length
    ELSE IF video.length < audio.length THEN video.length ELSE audio.length

\* the length of segment_<i>.mp4, built from the frame and the audio file of
\* line i; audioLen: audio path -> length of the file
SegmentLength(line, audioLen) ==
    Shortest(ImageInput, AudioInput(audioLen[LineAudio(line)]))

RECURSIVE ConcatLength(_, _)
\* format='concat', c='copy': the listed files one after the other
ConcatLength(list, videoLen) ==
    IF list = <<>> THEN 0
    ELSE videoLen[Head(list)] + ConcatLength(Tail(list), videoLen)

\* the video files one call leaves and their lengths; a segment path holds
\* its line index
VideoLengths(script, out, audioLen) ==
    LET segLen == [ seg \in Range(out.loop.segment_files) |->
                      SegmentLength(script[seg[3] + 1], audioLen) ]
    IN  IF out.ret = None THEN segLen
        ELSE [ v \in (DOMAIN segLen) \cup { out.ret } |->
                 IF v \in DOMAIN segLen THEN segLen[v]
                 ELSE ConcatLength(out.list, segLen) ]

\* ------------------------------------------------------------------------
\* Script lines as objects.  The heap is the sequence of all line dicts
\* alive; a script is a list of references (heap indices), so that two
\* lists can hold the same dict.
\* ------------------------------------------------------------------------
\* the dicts a script refers to, in script order
Lines(heap, ids) == [ pos \in DOMAIN ids |-> heap[ids[pos]] ]

DeepCopyIds_SameDicts(heap, ids) == ids

\* copy.deepcopy(script): (new heap, references of the copy)
DeepCopyHeap(heap, ids) == heap \o Lines(heap, ids)
DeepCopyIds(heap, ids) == [ pos \in DOMAIN ids |-> Len(heap) + pos ]

\* script[:n], a new list of the same dicts
Slice(ids, n) == SubSeq(ids, 1, IF Len(ids) < n THEN Len(ids) ELSE n)

\* "..... ? .....", the text every listening line displays
MaskText == <<".",".",".",".","."," ","?"," ",".",".",".",".",".">>

\* for line in listening_script: if 'text' in line: line['text'] = MaskText
MaskLines(heap, ids) ==
    [ id \in DOMAIN heap |->
        IF id \in Range(ids) /\ "text" \in DOMAIN heap[id]
        THEN Put(heap[id], "text", MaskText)
        ELSE heap[id] ]

\* ------------------------------------------------------------------------
\* generate_single_audio.  A configuration is [keys, voices, narrator]: the
\* character keys in insertion order, the keys whose entry holds voice_params,
\* and whether config['narrator'] holds voice_params.
\* ------------------------------------------------------------------------
NarratorVoice(cfg) == IF cfg.narrator THEN << "voice", Narrator >> ELSE None

\* config['characters'].get(key) and its 'voice_params'
CharVoice(cfg, key) == IF key \in cfg.voices THEN << "voice", key >> ELSE None

\* "Determine Voice Params", with the fallback to the narrator's
SelectVoice(speaker, cfg) ==
    LET voice_params ==
            IF speaker = Narrator THEN NarratorVoice(cfg)
            ELSE LET resolved_key == resolve_character_key(speaker, cfg.keys)
                 IN  IF Truthy(resolved_key) THEN CharVoice(cfg, resolved_key)
                     ELSE None
    IN  IF voice_params = None THEN NarratorVoice(cfg) ELSE voice_params

NoAudio == << None, 0 >>

\* clientOk: TextToSpeechClient() is constructed; synthOk: synthesize_speech
\* returns; mp3Ok: mutagen reads the duration of the written file
generate_single_audio(text, speaker, index, cfg, output_dir, clientOk, synthOk, mp3Ok) ==
    IF ~clientOk
    THEN [ ret |-> NoAudio, voice |-> None, synthesize |-> FALSE, written |-> {} ]
    ELSE LET voice_params == SelectVoice(speaker, cfg)
             filepath == AudioPath(output_dir, index)
         IN  IF voice_params = None
             THEN [ ret |-> NoAudio, voice |-> None, synthesize |-> FALSE,
                    written |-> {} ]
             ELSE IF ~synthOk
             THEN [ ret |-> NoAudio, voice |-> voice_params,
                    synthesize |-> TRUE, written |-> {} ]
             ELSE [ ret |-> << filepath, IF mp3Ok THEN Len(text) ELSE 0 >>,
                    voice |-> voice_params, synthesize |-> TRUE,
                    written |-> { filepath } ]

\* ------------------------------------------------------------------------
\* generate_audio: ttsOk is the set of line indices at which
\* generate_single_audio returns a path.  The duration mutagen reads off the
\* synthesized file is taken to be the length of the spoken text.
\* The loop carries the heap, the list updated_script and the files written.
\* ------------------------------------------------------------------------
AudioStart(heap) == [ heap |-> heap, updated_script |-> <<>>, written |-> {} ]

RECURSIVE GenerateAudioLoop_DropSkipped(_, _, _, _, _, _)
GenerateAudioLoop_DropSkipped(heap, ids, output_dir, ttsOk, pos, acc) ==
    IF pos > Len(ids) THEN acc
    ELSE
      LET i == pos - 1
          line == acc.heap[ids[pos]]
          speaker == Get(line, "speaker")
          text == Get(line, "text")
          filepath == AudioPath(output_dir, i)
          appended == Append(acc.updated_script, ids[pos])
      IN  IF ~Truthy(speaker) \/ ~Truthy(text)
          THEN GenerateAudioLoop_DropSkipped(heap, ids, output_dir, ttsOk,
                                             pos + 1, acc)
          ELSE IF i \in ttsOk
          THEN GenerateAudioLoop_DropSkipped(heap, ids, output_dir, ttsOk, pos + 1,
                   [ heap |-> [ acc.heap EXCEPT ![ids[pos]] =
                                  Put(Put(Put(line, "audio_file", filepath),
                                          "audio_path", filepath),
                                      "duration", Len(text)) ],
                     updated_script |-> appended,
                     written |-> acc.written \cup { filepath } ])
          ELSE GenerateAudioLoop_DropSkipped(heap, ids, output_dir, ttsOk, pos + 1,
                   [ acc EXCEPT !.updated_script = appended ])

RECURSIVE GenerateAudioLoop(_, _, _, _, _, _)
GenerateAudioLoop(heap, ids, output_dir, ttsOk, pos, acc) ==
    IF pos > Len(ids) THEN acc
    ELSE
      LET i == pos - 1
          line == acc.heap[ids[pos]]
          speaker == Get(line, "speaker")
          text == Get(line, "text")
          filepath == AudioPath(output_dir, i)
          appended == Append(acc.updated_script, ids[pos])
      IN  IF ~Truthy(speaker) \/ ~Truthy(text)
          THEN GenerateAudioLoop(heap, ids, output_dir, ttsOk, pos + 1,
                   [ acc EXCEPT !.updated_script = appended ])
          ELSE IF i \in ttsOk
          THEN GenerateAudioLoop(heap, ids, output_dir, ttsOk, pos + 1,
                   [ heap |-> [ acc.heap EXCEPT ![ids[pos]] =
                                  Put(Put(Put(line, "audio_file", filepath),
                                          "audio_path", filepath),
                                      "duration", Len(text)) ],
                     updated_script |-> appended,
                     written |-> acc.written \cup { filepath } ])
          ELSE GenerateAudioLoop(heap, ids, output_dir, ttsOk, pos + 1,
                   [ acc EXCEPT !.updated_script = appended ])

\* the heap after generate_audio; the list it returns holds the same
\* references (see GenerateAudioLoop)
generate_audio(heap, ids, output_dir, ttsOk) ==
    GenerateAudioLoop(heap, ids, output_dir, ttsOk, 1, AudioStart(heap)).heap

\* the line indices generate_audio hands to generate_single_audio
Speakable(heap, ids) ==
    { i \in 0 .. Len(ids) - 1 :
        /\ Truthy(Get(heap[ids[i + 1]], "speaker"))
        /\ Truthy(Get(heap[ids[i + 1]], "text")) }

generate_frames_NoImageCheck(heap, ids, roster, output_dir, balloonOk, loadable) ==
    IF ~balloonOk THEN heap
    ELSE [ id \in DOMAIN heap |->
             IF \E pos \in DOMAIN ids : ids[pos] = id
             THEN Put(heap[id], "image_path",
                      FramePath(output_dir,
                                (CHOOSE pos \in DOMAIN ids : ids[pos] = id) - 1))
             ELSE heap[id] ]

generate_frames_IgnoreBalloon(heap, ids, roster, output_dir, balloonOk, loadable) ==
    IF roster \cap loadable = {} THEN heap
    ELSE [ id \in DOMAIN heap |->
             IF \E pos \in DOMAIN ids : ids[pos] = id
             THEN Put(heap[id], "image_path",
                      FramePath(output_dir,
                                (CHOOSE pos \in DOMAIN ids : ids[pos] = id) - 1))
             ELSE heap[id] ]

\* ------------------------------------------------------------------------
\* generate_frames: balloonOk, the balloon image opens; loadable, the
\* characters whose image opens
\* ------------------------------------------------------------------------
generate_frames(heap, ids, roster, output_dir, balloonOk, loadable) ==
    IF ~balloonOk THEN heap                      \* return parsed_script
    ELSE IF roster \cap loadable = {} THEN heap  \* "No character images loaded!"
    ELSE [ id \in DOMAIN heap |->
             IF \E pos \in DOMAIN ids : ids[pos] = id
             THEN Put(heap[id], "image_path",
                      FramePath(output_dir,
                                (CHOOSE pos \in DOMAIN ids : ids[pos] = id) - 1))
             ELSE heap[id] ]

\* ------------------------------------------------------------------------
\* Roster order and frame rendering: get_active_roster followed by
\* generate_frames on one script, in a process whose string hash seed fixes
\* the iteration order of every set of strings.
\* ------------------------------------------------------------------------
\* PYTHONHASHSEED is drawn when the interpreter starts
HashSeeds == { "seed a", "seed b" }

\* keys in the order of one hash seed; the other seed reverses it
KeyOrder == << Herbert, Margot, HerbertWalker, Her, herbertLc, Narrator, EmptyStr >>

Rank(key) == CHOOSE r \in DOMAIN KeyOrder : KeyOrder[r] = key

Before(a, b, seed) ==
    IF seed = "seed a" THEN Rank(a) <= Rank(b) ELSE Rank(b) <= Rank(a)

\* list(roster): the members of the set in its iteration order
RECURSIVE ListOfSet(_, _)
ListOfSet(members, seed) ==
    IF members = {} THEN <<>>
    ELSE LET first == CHOOSE k \in members :
                          \A other \in members : Before(k, other, seed)
         IN  << first >> \o ListOfSet(members \ { first }, seed)

HalfAlpha == "50%"
FullAlpha == "100%"

StageLayer_SpeakerLineAllFull(speaker, roster, keys, loadable) ==
    [ idx \in { i \in 0 .. Len(roster) - 1 : roster[i + 1] \in loadable } |->
        [ char  |-> roster[idx + 1],
          alpha |-> IF speaker = Narrator THEN HalfAlpha ELSE FullAlpha ] ]

\* the stage layer of one frame: slot index -> the sprite pasted there.
\* A roster member without a loaded image is skipped and leaves its slot empty.
StageLayer(speaker, roster, keys, loadable) ==
    [ idx \in { i \in 0 .. Len(roster) - 1 : roster[i + 1] \in loadable } |->
        LET char_name == roster[idx + 1]
            current_speaker_key == resolve_character_key(speaker, keys)
            is_active == current_speaker_key = char_name
            is_narrator == speaker = Narrator
        IN  [ char  |-> char_name,
              alpha |-> IF is_narrator \/ ~is_active
                        THEN HalfAlpha ELSE FullAlpha ] ]

\* the frame loop is reached: the balloon opened and some image was loaded
FrameLoopRuns(roster, balloonOk, loadable) ==
    balloonOk /\ Range(roster) \cap loadable /= {}

\* the frames generate_frames renders, one per line, in line order
RenderedFrames(script, roster, keys, balloonOk, loadable) ==
    IF FrameLoopRuns(roster, balloonOk, loadable)
    THEN [ pos \in DOMAIN script |->
             StageLayer(Get(script[pos], "speaker"), roster, keys, loadable) ]
    ELSE <<>>

\* the files frame.save writes
FramesWritten(script, roster, output_dir, balloonOk, loadable) ==
    IF FrameLoopRuns(roster, balloonOk, loadable)
    THEN { FramePath(output_dir, pos - 1) : pos \in DOMAIN script }
    ELSE {}

\* ------------------------------------------------------------------------
\* State
\* ------------------------------------------------------------------------
VARIABLES
    cfgKeys,      \* config['characters'].keys(), in insertion order
    lastOp,       \* the resolver operation applied last
    argName,      \* argument of the last resolve_character_key call
    retKey,       \* its return value
    argSpeakers,  \* speakers of the script of the last get_active_roster call
    retRoster,    \* the set of keys it returned
    files,        \* the files on disk: path -> who wrote it
    manifest,     \* content of output/temp/file_list.txt (None: no such file)
    asmPhase,     \* "idle" or "returned"
    asmArgs,      \* arguments and collaborator outcomes of the last call
    asmOut,       \* what the last call returned and logged
    asmMedia,     \* lengths of the audio files read and the video files built
    caller,       \* "app" (app.generate_video) or "batch" (batch_gen.main)
    pc,           \* the stage the run is at
    heap,         \* the line dicts alive
    sessionWeb,   \* st.session_state.script_web / web_script (references)
    socialScript, \* parsed_script / script_social
    listeningScript, \* listening_script
    webScript,    \* web_script (app) / script_web (batch), the copy processed
    roster,       \* roster / social_roster
    webRoster,    \* web_roster
    balloonOk,    \* the balloon image can be opened
    loadable,     \* the characters whose image can be opened
    started,      \* the variants whose processing has begun
    parts,        \* part name -> what assemble_video returned for it
    clips,        \* the clip list of the social montage
    exported,     \* the variants whose final video has been written
    exportFailed, \* the variants whose montage or export raised
    cleaned,      \* cleanup_workspace has run
    montage,      \* what the social montage found: intro, flag, vocabulary
    debug,        \* config['debug_mode']
    status,       \* the progress bar, in percent: its value before the last
                  \* step and the values the step passed to update_status
    stages,       \* the last stage each variant had completed before the last
                  \* step, and the stages the step completed
    conCaller,    \* whose directory layout the concurrent variants use
    conLines,     \* number of lines of the script of each variant
    conPc,        \* variant -> number of file operations it has done
    conWritten,   \* variant -> the paths it has written
    conReads,     \* <<reader, path, writer>>: a file read from the other variant
    hashSeed,     \* string hash seed of the running interpreter
    frKeys,       \* config['characters'].keys() of the rendered script
    frScript,     \* the script given to get_active_roster and generate_frames
    frBalloon,    \* the balloon image opens
    frLoadable,   \* the characters whose image opens
    frPhase,      \* "idle", "rostered", "rendered"
    frRoster,     \* the list get_active_roster returned last
    frPrevRoster, \* the list it returned the time before
    frOut,        \* what generate_frames returned, rendered and wrote
    auCfg,        \* the configuration: character keys, voices, narrator voice
    auPhase,      \* "idle", "single", "batch"
    auSpeaker,    \* speaker of the last generate_single_audio call
    auClient,     \* the TTS client was constructed in that call
    auSingle,     \* what that call returned, selected, called and wrote
    auScript,     \* the script of the last generate_audio call, as given
    auTts,        \* the line indices at which synthesis returned a path
    auBatch,      \* heap, returned list and files after that call
    layIn,        \* what one frame is laid out from: roster size, slot index,
                  \* sprite width, balloon height, speaker active, text box
    layPhase,     \* "idle", "pasted" or "drawn"
    layOut,       \* where the sprite was pasted or the text drawn
    layPrev       \* the same for the frame before

resolverVars == <<cfgKeys, lastOp, argName, retKey, argSpeakers, retRoster>>
diskVars == <<files, manifest>>
assemblyVars == <<asmPhase, asmArgs, asmOut, asmMedia>>

pipelineVars == <<caller, pc, heap, sessionWeb, socialScript, listeningScript,
                  webScript, roster, webRoster, balloonOk, loadable, started,
                  parts, clips, exported, exportFailed, cleaned, montage,
                  debug, status, stages>>

concurrentVars == <<conCaller, conLines, conPc, conWritten, conReads>>

layoutVars == <<layIn, layPhase, layOut, layPrev>>

audioVars == <<auCfg, auPhase, auSpeaker, auClient, auSingle, auScript, auTts,
               auBatch>>

frameVars == <<hashSeed, frKeys, frScript, frBalloon, frLoadable, frPhase,
               frRoster, frPrevRoster, frOut>>

restOfFrames == <<resolverVars, diskVars, assemblyVars, pipelineVars,
                  concurrentVars, audioVars, layoutVars>>

restOfAudio == <<resolverVars, diskVars, assemblyVars, pipelineVars,
                 concurrentVars, frameVars, layoutVars>>

restOfLayout == <<resolverVars, diskVars, assemblyVars, pipelineVars,
                  concurrentVars, frameVars, audioVars>>

vars == <<resolverVars, diskVars, assemblyVars, pipelineVars, concurrentVars, frameVars, audioVars, layoutVars>>

NoFiles == << >>

ResolverIdle ==
    /\ cfgKeys = <<>>
    /\ lastOp = "none"
    /\ argName = None
    /\ retKey = None
    /\ argSpeakers = <<>>
    /\ retRoster = {}

DiskEmpty ==
    /\ files = NoFiles
    /\ manifest = None

NoArgs == [ script |-> <<>>, output_filename |-> "", encodeOk |-> {},
            concatOk |-> FALSE ]

NoOut == [ ret |-> None, loop |-> LoopStart, errors |-> 0, written |-> {},
           list |-> None ]

NoMedia == [ audio |-> <<>>, video |-> <<>> ]

NoParts == << >>

NoMontage == [ intro |-> FALSE, enable_vocab |-> FALSE, vocab_list |-> FALSE,
               vocab_clip |-> FALSE ]

PipelineIdle ==
    /\ caller = "none"
    /\ pc = "none"
    /\ heap = <<>>
    /\ sessionWeb = <<>>
    /\ socialScript = <<>>
    /\ listeningScript = <<>>
    /\ webScript = <<>>
    /\ roster = {}
    /\ webRoster = {}
    /\ balloonOk = FALSE
    /\ loadable = {}
    /\ started = {}
    /\ parts = NoParts
    /\ clips = <<>>
    /\ exported = {}
    /\ exportFailed = {}
    /\ cleaned = FALSE
    /\ montage = NoMontage
    /\ debug = FALSE
    /\ status = [ before |-> 0, calls |-> <<>> ]
    /\ stages = [ before |-> [ v \in { "social", "web" } |-> "NotStarted" ],
                  variant |-> "social", names |-> <<>> ]

Variants == { "social", "web" }

ConcurrentIdle ==
    /\ conCaller = "none"
    /\ conLines = 0
    /\ conPc = [ v \in Variants |-> 0 ]
    /\ conWritten = [ v \in Variants |-> {} ]
    /\ conReads = {}

FramesIdle ==
    /\ hashSeed = "seed a"
    /\ frKeys = <<>>
    /\ frScript = <<>>
    /\ frBalloon = FALSE
    /\ frLoadable = {}
    /\ frPhase = "idle"
    /\ frRoster = None
    /\ frPrevRoster = None
    /\ frOut = [ script |-> <<>>, frames |-> <<>>, written |-> {} ]

NoSingle == [ ret |-> NoAudio, voice |-> None, synthesize |-> FALSE,
              written |-> {} ]

NoLayout == [ raised |-> FALSE, x |-> 0, y |-> 0, width |-> 0, height |-> 0,
              alpha |-> FullAlpha, text_x |-> 0, text_y |-> 0,
              drawn |-> << 0, 0, 0, 0 >> ]

NoInput == [ kind |-> "none", num_chars |-> 0, idx |-> 0, img_w |-> 0,
             balloon_height |-> 0, is_active |-> FALSE,
             box |-> << 0, 0, 0, 0 >> ]

LayoutIdle ==
    /\ layIn = NoInput
    /\ layPhase = "idle"
    /\ layOut = NoLayout
    /\ layPrev = NoLayout

AudioIdle ==
    /\ auCfg = [ keys |-> <<>>, voices |-> {}, narrator |-> FALSE ]
    /\ auPhase = "idle"
    /\ auSpeaker = None
    /\ auClient = FALSE
    /\ auSingle = NoSingle
    /\ auScript = <<>>
    /\ auTts = {}
    /\ auBatch = AudioStart(<<>>)

AssemblyIdle ==
    /\ asmPhase = "idle"
    /\ asmArgs = NoArgs
    /\ asmOut = NoOut
    /\ asmMedia = NoMedia

\* ------------------------------------------------------------------------
\* Resolver specification: inputs drawn from Configs, Names, SpeakerLists
\* ------------------------------------------------------------------------
InitResolver ==
    /\ cfgKeys \in Configs
    /\ lastOp = "none"
    /\ argName = None
    /\ retKey = None
    /\ argSpeakers = <<>>
    /\ retRoster = {}
    /\ DiskEmpty
    /\ AssemblyIdle
    /\ PipelineIdle
    /\ ConcurrentIdle
    /\ FramesIdle
    /\ AudioIdle
    /\ LayoutIdle

\* one call of resolve_character_key(name, config)
Resolve ==
    \E name \in Names :
        /\ lastOp = "none"
        /\ lastOp' = "resolve"
        /\ argName' = name
        /\ retKey' = resolve_character_key(name, cfgKeys)
        /\ UNCHANGED <<cfgKeys, argSpeakers, retRoster, diskVars, assemblyVars,
                       pipelineVars, concurrentVars, frameVars, audioVars, layoutVars>>

\* one call of get_active_roster(parsed_script, config)
Roster ==
    \E speakers \in SpeakerLists(MaxSpeakers) :
        /\ lastOp = "none"
        /\ lastOp' = "roster"
        /\ argSpeakers' = speakers
        /\ retRoster' = get_active_roster(speakers, cfgKeys)
        /\ UNCHANGED <<cfgKeys, argName, retKey, diskVars, assemblyVars,
                       pipelineVars, concurrentVars, frameVars, audioVars, layoutVars>>

\* the caller has consumed the result; the next call can be made
ResolverReturn ==
    /\ lastOp /= "none"
    /\ lastOp' = "none"
    /\ argName' = None
    /\ retKey' = None
    /\ argSpeakers' = <<>>
    /\ retRoster' = {}
    /\ UNCHANGED <<cfgKeys, diskVars, assemblyVars, pipelineVars,
                   concurrentVars, frameVars, audioVars, layoutVars>>

NextResolver == Resolve \/ Roster \/ ResolverReturn

SpecResolver == InitResolver /\ [][NextResolver]_vars

\* ------------------------------------------------------------------------
\* Assembly specification: assemble_video called repeatedly on one output
\* directory, as the callers do for the listening, reading and web parts
\* ------------------------------------------------------------------------
FramesDir == "output/frames"

\* the lines assemble_video can be handed at index i: each asset key is
\* either absent or holds the path the earlier stages wrote
AsmLines(i) ==
    { l \in [ image_path : { None, FramePath(FramesDir, i) },
              audio_file : { None, AudioPath(OutputDir, i) },
              audio_path : { None, AudioPath(OutputDir, i) } ] :
        l.audio_file /= None => l.audio_path /= None }

RECURSIVE AsmScripts(_)
AsmScripts(n) ==
    IF n = 0 THEN { <<>> }
    ELSE LET shorter == AsmScripts(n - 1)
         IN  shorter \cup { Append(sc, l) : sc \in { x \in shorter : Len(x) = n - 1 },
                                            l \in AsmLines(n - 1) }

HasBothAssets(line) ==
    /\ Get(line, "image_path") /= None
    /\ (Get(line, "audio_file") /= None \/ Get(line, "audio_path") /= None)

Eligible(script) == { i \in 0 .. Len(script) - 1 : HasBothAssets(script[i + 1]) }

PartName == "part"

\* files after the paths in written have been written (overwrite_output=True)
\* by the writer tag
WriteFiles(fs, written, tag) ==
    [ p \in (DOMAIN fs) \cup written |-> IF p \in written THEN tag ELSE fs[p] ]

\* the running call is over: what it wrote is now left by an earlier call
Aged(fs) == [ p \in DOMAIN fs |-> "earlier call" ]

InitAssembly ==
    /\ ResolverIdle
    /\ DiskEmpty
    /\ AssemblyIdle
    /\ PipelineIdle
    /\ ConcurrentIdle
    /\ FramesIdle
    /\ AudioIdle
    /\ LayoutIdle

\* the audio files the eligible lines of a script name
AudioFiles(script) == { LineAudio(script[i + 1]) : i \in Eligible(script) }

\* one call of assemble_video(parsed_script, "output", output_filename)
Assemble ==
    \E script \in AsmScripts(MaxLines), concatOk \in BOOLEAN :
      \E encodeOk \in SUBSET Eligible(script),
         audioLen \in [ AudioFiles(script) -> 1 .. MaxDur ] :
        LET out == assemble_video(script, OutputDir, PartName,
                                  encodeOk, concatOk)
        IN  /\ asmPhase = "idle"
            /\ asmMedia' = [ audio |-> audioLen,
                             video |-> VideoLengths(script, out, audioLen) ]
            /\ asmPhase' = "returned"
            /\ asmArgs' = [ script |-> script,
                            output_filename |-> PartName,
                            encodeOk |-> encodeOk, concatOk |-> concatOk ]
            /\ asmOut' = out
            /\ files' = WriteFiles(files, out.written, "this call")
            /\ manifest' = IF out.list /= None THEN out.list ELSE manifest
            /\ UNCHANGED <<resolverVars, pipelineVars, concurrentVars, frameVars, audioVars, layoutVars>>

\* the caller takes the return value
AssembleReturn ==
    /\ asmPhase = "returned"
    /\ asmPhase' = "idle"
    /\ asmArgs' = NoArgs
    /\ asmOut' = NoOut
    /\ asmMedia' = NoMedia
    /\ files' = Aged(files)
    /\ UNCHANGED <<manifest, resolverVars, pipelineVars, concurrentVars, frameVars, audioVars, layoutVars>>

NextAssembly == Assemble \/ AssembleReturn

SpecAssembly == InitAssembly /\ [][NextAssembly]_vars

\* ------------------------------------------------------------------------
\* Whole runs: app.generate_video on the session's scripts, and the body of
\* the file loop of batch_gen.main on one lesson file
\* ------------------------------------------------------------------------
Hi == <<"H","i">>

\* the lines the script parser can hand over
ParsedLines ==
    { [ speaker |-> Narrator, text |-> Hi ],
      [ speaker |-> Herbert, text |-> Hi ],
      [ speaker |-> Herbert, text |-> EmptyStr ] }

RECURSIVE ParsedScripts(_)
ParsedScripts(n) ==
    IF n = 0 THEN { <<>> }
    ELSE LET shorter == ParsedScripts(n - 1)
         IN  shorter \cup { Append(sc, l) : sc \in shorter, l \in ParsedLines }

\* the [:6] of "edited_web[:6]" and "web_script[:6]"
SocialLines == 6

SpeakersOf(h, ids) == [ pos \in DOMAIN ids |-> Get(h[ids[pos]], "speaker") ]

\* what the callers pass as output_dir
AudioSocialApp == "output"
AudioSocialBatch == "output/audio_social"
AudioWeb == "output/audio_web"
FramesListening == "output/frames_listening"
FramesReading == "output/frames_reading"
FramesWeb == "output/frames_web"

SetPart(ps, name, ret) ==
    [ k \in (DOMAIN ps) \cup {name} |-> IF k = name THEN ret ELSE ps[k] ]

InitPipeline ==
    /\ ResolverIdle
    /\ DiskEmpty
    /\ AssemblyIdle
    /\ ConcurrentIdle
    /\ FramesIdle
    /\ AudioIdle
    /\ LayoutIdle
    /\ caller \in { "app", "batch" }
    /\ pc = "start"
    /\ heap \in ParsedScripts(MaxScript)
    /\ sessionWeb = [ pos \in DOMAIN heap |-> pos ]
    \* app.main: script_social = edited_web[:6]; batch derives it later
    /\ socialScript = IF caller = "app" THEN Slice(sessionWeb, SocialLines)
                      ELSE <<>>
    /\ listeningScript = <<>>
    /\ webScript = <<>>
    /\ roster = {}
    /\ webRoster = {}
    /\ balloonOk \in BOOLEAN
    /\ loadable \in SUBSET { Herbert }
    /\ started = {}
    /\ parts = NoParts
    /\ clips = <<>>
    /\ exported = {}
    /\ exportFailed = {}
    /\ cleaned = FALSE
    /\ montage = NoMontage
    \* app.main: config['debug_mode'] = debug_mode, the sidebar checkbox;
    \* batch_gen.main reads no such flag
    /\ debug \in (IF caller = "app" THEN BOOLEAN ELSE { FALSE })
    \* main_progress = st.progress(0)
    /\ status = [ before |-> 0, calls |-> <<>> ]
    /\ stages = [ before |-> [ v \in Variants |-> "NotStarted" ],
                  variant |-> "social", names |-> <<>> ]

\* the first argument of every update_status call of app.generate_video, in
\* percent, by the step that makes the call
StatusAt_WebFromZero(step) ==
    CASE step = "roster" -> 2            [] step = "roster_done" -> 5
      [] step = "audio" -> 5             [] step = "audio_done" -> 15
      [] step = "listening" -> 15        [] step = "listening_frames" -> 30
      [] step = "listening_done" -> 35   [] step = "reading" -> 35
      [] step = "reading_frames" -> 45   [] step = "reading_done" -> 50
      [] step = "montage" -> 50          [] step = "vocab" -> 53
      [] step = "music" -> 55            [] step = "title" -> 57
      [] step = "export" -> 58           [] step = "social_done" -> 60
      [] step = "web" -> 2               [] step = "web_audio" -> 25
      [] step = "web_frames" -> 60       [] step = "web_assemble" -> 75
      [] step = "web_concat" -> 90       [] step = "web_export" -> 95
      [] step = "finished" -> 100

StatusAt(step) ==
    CASE step = "roster" -> 2            [] step = "roster_done" -> 5
      [] step = "audio" -> 5             [] step = "audio_done" -> 15
      [] step = "listening" -> 15        [] step = "listening_frames" -> 30
      [] step = "listening_done" -> 35   [] step = "reading" -> 35
      [] step = "reading_frames" -> 45   [] step = "reading_done" -> 50
      [] step = "montage" -> 50          [] step = "vocab" -> 53
      [] step = "music" -> 55            [] step = "title" -> 57
      [] step = "export" -> 58           [] step = "social_done" -> 60
      [] step = "web" -> 61              [] step = "web_audio" -> 70
      [] step = "web_frames" -> 85       [] step = "web_assemble" -> 90
      [] step = "web_concat" -> 95       [] step = "web_export" -> 98
      [] step = "finished" -> 100

\* main_progress.progress(progress): the bar shows the last value it was given
Bar == IF status.calls = <<>> THEN status.before
       ELSE status.calls[Len(status.calls)]

\* update_status called once for each of the steps, in order
Report(steps) ==
    [ before |-> Bar, calls |-> [ k \in DOMAIN steps |-> StatusAt(steps[k]) ] ]

\* stage names of the montage of a social video: concatenate_videoclips, the
\* branding overlay when assets/NoBackground.png exists, the background music
\* when ENABLE_MUSIC is set, the title overlay, write_videofile
MontageStages(overlay, music, exportOk) ==
    << "Concatenated" >>
        \o (IF overlay THEN << "Branded" >> ELSE <<>>)
        \o (IF music THEN << "MusicApplied" >> ELSE <<>>)
        \o << "TitleOverlaid" >>
        \o (IF exportOk THEN << "Exported" >> ELSE <<>>)

\* the last stage variant v has completed
StageOf(v) ==
    IF v = stages.variant /\ stages.names /= <<>>
    THEN stages.names[Len(stages.names)] ELSE stages.before[v]

\* a step in which variant v completes the stages names, in order
Completed(v, names) ==
    [ before |-> [ w \in Variants |-> StageOf(w) ], variant |-> v,
      names |-> names ]

ConfigKeys == << Herbert >>

\* what the montage finds when it runs: assets/intro.mp4 exists; the
\* ENABLE_VOCAB_SECTION flag of the configuration; the extracted vocabulary
\* list is non-empty; generate_vocab_assets and create_vocab_video_sequence
\* both return something (only asked when there is a list)
MontageEnvs ==
    { env \in [ intro : BOOLEAN, enable_vocab : BOOLEAN, vocab_list : BOOLEAN,
                vocab_clip : BOOLEAN ] : env.vocab_clip => env.vocab_list }

\* ---- app.generate_video -------------------------------------------------
\* roster, then "if not parsed_script: return"
AppStart ==
    /\ caller = "app" /\ pc = "start"
    /\ started' = started \cup { "social" }
    /\ roster' = get_active_roster(SpeakersOf(heap, socialScript), ConfigKeys)
    /\ pc' = IF socialScript = <<>> THEN "done" ELSE "audio"
    /\ UNCHANGED <<caller, heap, sessionWeb, socialScript, listeningScript,
                   webScript, webRoster, balloonOk, loadable, parts, clips,
                   exported, exportFailed, cleaned>>
    /\ UNCHANGED <<resolverVars, diskVars, assemblyVars, concurrentVars, frameVars, audioVars, layoutVars>>
    /\ status' = Report(<< "roster", "roster_done" >>)
    /\ stages' = Completed("social", << "RosterComputed" >>)
    /\ UNCHANGED <<montage, debug>>

\* parsed_script_with_audio = generate_audio(parsed_script)
AppAudio ==
    /\ caller = "app" /\ pc = "audio"
    /\ \E ttsOk \in SUBSET Speakable(heap, socialScript) :
          heap' = generate_audio(heap, socialScript, AudioSocialApp, ttsOk)
    /\ pc' = "listening"
    /\ UNCHANGED <<caller, sessionWeb, socialScript, listeningScript, webScript,
                   roster, webRoster, balloonOk, loadable, started, parts,
                   clips, exported, exportFailed, cleaned>>
    /\ UNCHANGED <<resolverVars, diskVars, assemblyVars, concurrentVars, frameVars, audioVars, layoutVars>>
    /\ status' = Report(<< "audio", "audio_done" >>)
    /\ stages' = Completed("social", << "AudioSynthesized" >>)
    /\ UNCHANGED <<montage, debug>>

\* deepcopy, mask, generate_frames, assemble_video of the listening part;
\* shared by both callers up to what they do with a None
ListeningPart(next_ok, next_none) ==
    LET ids == DeepCopyIds(heap, socialScript)
        masked == MaskLines(DeepCopyHeap(heap, socialScript), ids)
        framed == generate_frames(masked, ids, roster, FramesListening,
                                  balloonOk, loadable)
    IN  \E concatOk \in BOOLEAN :
          \E encodeOk \in SUBSET Eligible(Lines(framed, ids)) :
            LET out == assemble_video(Lines(framed, ids), OutputDir,
                                      "listening_part", encodeOk, concatOk)
            IN  /\ listeningScript' = ids
                /\ heap' = framed
                /\ parts' = SetPart(parts, "listening", out.ret)
                /\ pc' = IF out.ret = None THEN next_none ELSE next_ok

\* generate_frames and assemble_video of the reading part, on the social
\* script itself
ReadingPart(next_ok, next_none) ==
    LET framed == generate_frames(heap, socialScript, roster, FramesReading,
                                  balloonOk, loadable)
    IN  \E concatOk \in BOOLEAN :
          \E encodeOk \in SUBSET Eligible(Lines(framed, socialScript)) :
            LET out == assemble_video(Lines(framed, socialScript), OutputDir,
                                      "reading_part", encodeOk, concatOk)
            IN  /\ heap' = framed
                /\ parts' = SetPart(parts, "reading", out.ret)
                /\ pc' = IF out.ret = None THEN next_none ELSE next_ok

\* "if not listening_video_path: st.error(...); return"
AppListening ==
    /\ caller = "app" /\ pc = "listening"
    /\ ListeningPart("reading", "done")
    /\ UNCHANGED <<caller, sessionWeb, socialScript, webScript, roster,
                   webRoster, balloonOk, loadable, started, clips, exported,
                   exportFailed, cleaned>>
    /\ UNCHANGED <<resolverVars, diskVars, assemblyVars, concurrentVars, frameVars, audioVars, layoutVars>>
    /\ status' = Report(<< "listening", "listening_frames" >>
                            \o (IF parts'["listening"] /= None
                                THEN << "listening_done" >> ELSE <<>>))
    /\ stages' = Completed("social", IF parts'["listening"] /= None
                                     THEN << "ListeningAssembled" >> ELSE <<>>)
    /\ UNCHANGED <<montage, debug>>

\* "if not reading_video_path: st.error(...); return"
AppReading ==
    /\ caller = "app" /\ pc = "reading"
    /\ ReadingPart("montage", "done")
    /\ UNCHANGED <<caller, sessionWeb, socialScript, listeningScript, webScript,
                   roster, webRoster, balloonOk, loadable, started, clips,
                   exported, exportFailed, cleaned>>
    /\ UNCHANGED <<resolverVars, diskVars, assemblyVars, concurrentVars, frameVars, audioVars, layoutVars>>
    /\ status' = Report(<< "reading", "reading_frames" >>
                            \o (IF parts'["reading"] /= None
                                THEN << "reading_done" >> ELSE <<>>))
    /\ stages' = Completed("social", IF parts'["reading"] /= None
                                     THEN << "ReadingAssembled" >> ELSE <<>>)
    /\ UNCHANGED <<montage, debug>>

\* the try block of Part C: clip list, concatenate, overlays, export; any
\* exception is caught and logged
AppClips(env) ==
    (IF env.intro THEN << "intro" >> ELSE <<>>)
        \o << "listening", "separator", "reading" >>
        \o (IF env.enable_vocab /\ env.vocab_list /\ env.vocab_clip
            THEN << "vocabulary" >> ELSE <<>>)

AppMontage ==
    /\ caller = "app" /\ pc = "montage"
    /\ montage' \in MontageEnvs
    /\ clips' = AppClips(montage')
    /\ \E exportOk \in BOOLEAN, overlay \in BOOLEAN, music \in BOOLEAN :
          /\ exported' = IF exportOk THEN exported \cup { "social" } ELSE exported
          /\ exportFailed' = IF exportOk THEN exportFailed
                             ELSE exportFailed \cup { "social" }
          /\ status' = Report(<< "montage" >>
                                  \o (IF montage'.enable_vocab /\ montage'.vocab_list
                                      THEN << "vocab" >> ELSE <<>>)
                                  \o (IF music THEN << "music" >> ELSE <<>>)
                                  \o << "title", "export", "social_done" >>)
          /\ stages' = Completed("social", MontageStages(overlay, music, exportOk))
    /\ pc' = "web"
    /\ UNCHANGED <<caller, heap, sessionWeb, socialScript, listeningScript,
                   webScript, roster, webRoster, balloonOk, loadable, started,
                   parts, cleaned>>
    /\ UNCHANGED <<resolverVars, diskVars, assemblyVars, concurrentVars, frameVars, audioVars, layoutVars>>
    /\ UNCHANGED debug

\* "if 'script_web' in st.session_state and st.session_state.script_web:"
\* web_script = copy.deepcopy(st.session_state.script_web); web_roster
AppWebStart ==
    /\ caller = "app" /\ pc = "web"
    /\ IF sessionWeb /= <<>>
       THEN /\ started' = started \cup { "web" }
            /\ webScript' = DeepCopyIds(heap, sessionWeb)
            /\ heap' = DeepCopyHeap(heap, sessionWeb)
            /\ webRoster' = get_active_roster(SpeakersOf(heap, sessionWeb),
                                              ConfigKeys)
            /\ pc' = "web_assets"
            /\ status' = Report(<< "web" >>)
            /\ stages' = Completed("web", << "RosterComputed" >>)
       ELSE /\ pc' = "cleanup"
            /\ status' = Report(<< "finished" >>)
            /\ stages' = Completed("web", <<>>)
            /\ UNCHANGED <<started, webScript, heap, webRoster>>
    /\ UNCHANGED <<caller, sessionWeb, socialScript, listeningScript, roster,
                   balloonOk, loadable, parts, clips, exported, exportFailed,
                   cleaned>>
    /\ UNCHANGED <<resolverVars, diskVars, assemblyVars, concurrentVars, frameVars, audioVars, layoutVars>>
    /\ UNCHANGED <<montage, debug>>

\* generate_audio and generate_frames of the web script
WebAssets(next) ==
    /\ \E ttsOk \in SUBSET Speakable(heap, webScript) :
          heap' = generate_frames(
                      generate_audio(heap, webScript, AudioWeb, ttsOk),
                      webScript, webRoster, FramesWeb, balloonOk, loadable)
    /\ pc' = next

AppWebAssets ==
    /\ caller = "app" /\ pc = "web_assets"
    /\ WebAssets("web_assemble")
    /\ UNCHANGED <<caller, sessionWeb, socialScript, listeningScript, webScript,
                   roster, webRoster, balloonOk, loadable, started, parts,
                   clips, exported, exportFailed, cleaned>>
    /\ UNCHANGED <<resolverVars, diskVars, assemblyVars, concurrentVars, frameVars, audioVars, layoutVars>>
    /\ status' = Report(<< "web_audio", "web_frames" >>)
    /\ stages' = Completed("web", << "AudioSynthesized" >>)
    /\ UNCHANGED <<montage, debug>>

\* assemble_video of the web story, then title card, concatenate and export
\* when it returned a path; next_raise is where an exception of the export
\* leads
WebAssemble(story_name, next, next_raise) ==
    \E concatOk \in BOOLEAN, exportOk \in BOOLEAN :
      \E encodeOk \in SUBSET Eligible(Lines(heap, webScript)) :
        LET out == assemble_video(Lines(heap, webScript), OutputDir,
                                  story_name, encodeOk, concatOk)
        IN  /\ parts' = SetPart(parts, "web", out.ret)
            /\ IF out.ret = None
               THEN /\ pc' = next
                    /\ UNCHANGED <<exported, exportFailed>>
               ELSE IF exportOk
               THEN /\ pc' = next
                    /\ exported' = exported \cup { "web" }
                    /\ UNCHANGED exportFailed
               ELSE /\ pc' = next_raise
                    /\ exportFailed' = exportFailed \cup { "web" }
                    /\ UNCHANGED exported

AppWebAssemble ==
    /\ caller = "app" /\ pc = "web_assemble"
    /\ WebAssemble("temp_web_story", "cleanup", "cleanup")
    /\ UNCHANGED <<caller, heap, sessionWeb, socialScript, listeningScript,
                   webScript, roster, webRoster, balloonOk, loadable, started,
                   clips, cleaned>>
    /\ UNCHANGED <<resolverVars, diskVars, assemblyVars, concurrentVars, frameVars, audioVars, layoutVars>>
    /\ status' = Report(<< "web_assemble" >>
                            \o (IF parts'["web"] = None THEN <<>>
                                ELSE << "web_concat", "web_export" >>
                                        \o (IF "web" \in exported'
                                            THEN << "finished" >> ELSE <<>>)))
    /\ stages' = Completed("web",
                   IF parts'["web"] = None THEN <<>>
                   ELSE << "StoryAssembled", "Concatenated" >>
                           \o (IF "web" \in exported' THEN << "Exported" >> ELSE <<>>))
    /\ UNCHANGED <<montage, debug>>

\* "if not config.get('debug_mode', False): cleanup_workspace()"
AppCleanup ==
    /\ caller = "app" /\ pc = "cleanup"
    /\ cleaned' = ~debug
    /\ pc' = "done"
    /\ UNCHANGED <<caller, heap, sessionWeb, socialScript, listeningScript,
                   webScript, roster, webRoster, balloonOk, loadable, started,
                   parts, clips, exported, exportFailed>>
    /\ UNCHANGED <<resolverVars, diskVars, assemblyVars, concurrentVars, frameVars, audioVars, layoutVars>>
    /\ status' = Report(<<>>)
    /\ stages' = Completed("web", <<>>)
    /\ UNCHANGED <<montage, debug>>

\* ---- batch_gen.main, one file of the loop ---------------------------------
\* "if not web_script: logger.error(...); continue", else roster and
\* script_web = copy.deepcopy(web_script)
BatchWebStart ==
    /\ caller = "batch" /\ pc = "start"
    /\ IF sessionWeb = <<>>
       THEN /\ pc' = "cleanup"
            /\ UNCHANGED <<started, webScript, heap, webRoster>>
            /\ stages' = Completed("web", <<>>)
       ELSE /\ started' = started \cup { "web" }
            /\ webRoster' = get_active_roster(SpeakersOf(heap, sessionWeb),
                                              ConfigKeys)
            /\ webScript' = DeepCopyIds(heap, sessionWeb)
            /\ heap' = DeepCopyHeap(heap, sessionWeb)
            /\ pc' = "web_assets"
            /\ stages' = Completed("web", << "RosterComputed" >>)
    /\ UNCHANGED <<caller, sessionWeb, socialScript, listeningScript, roster,
                   balloonOk, loadable, parts, clips, exported, exportFailed,
                   cleaned>>
    /\ UNCHANGED <<resolverVars, diskVars, assemblyVars, concurrentVars, frameVars, audioVars, layoutVars>>
    /\ UNCHANGED <<montage, debug, status>>

BatchWebAssets ==
    /\ caller = "batch" /\ pc = "web_assets"
    /\ WebAssets("web_assemble")
    /\ UNCHANGED <<caller, sessionWeb, socialScript, listeningScript, webScript,
                   roster, webRoster, balloonOk, loadable, started, parts,
                   clips, exported, exportFailed, cleaned>>
    /\ UNCHANGED <<resolverVars, diskVars, assemblyVars, concurrentVars, frameVars, audioVars, layoutVars>>
    /\ stages' = Completed("web", << "AudioSynthesized" >>)
    /\ UNCHANGED <<montage, debug, status>>

\* an exception of write_videofile leaves the try block of the file: except,
\* then finally
BatchWebAssemble ==
    /\ caller = "batch" /\ pc = "web_assemble"
    /\ WebAssemble("temp_web_story_lesson", "social", "cleanup")
    /\ UNCHANGED <<caller, heap, sessionWeb, socialScript, listeningScript,
                   webScript, roster, webRoster, balloonOk, loadable, started,
                   clips, cleaned>>
    /\ UNCHANGED <<resolverVars, diskVars, assemblyVars, concurrentVars, frameVars, audioVars, layoutVars>>
    /\ stages' = Completed("web",
                   IF parts'["web"] = None THEN <<>>
                   ELSE << "StoryAssembled", "Concatenated" >>
                           \o (IF "web" \in exported' THEN << "Exported" >> ELSE <<>>))
    /\ UNCHANGED <<montage, debug, status>>

\* script_social = copy.deepcopy(web_script[:6]); social_roster
BatchSocialStart ==
    /\ caller = "batch" /\ pc = "social"
    /\ started' = started \cup { "social" }
    /\ socialScript' = DeepCopyIds(heap, Slice(sessionWeb, SocialLines))
    /\ heap' = DeepCopyHeap(heap, Slice(sessionWeb, SocialLines))
    /\ roster' = get_active_roster(
                     SpeakersOf(heap, Slice(sessionWeb, SocialLines)), ConfigKeys)
    /\ pc' = "audio"
    /\ UNCHANGED <<caller, sessionWeb, listeningScript, webScript, webRoster,
                   balloonOk, loadable, parts, clips, exported, exportFailed,
                   cleaned>>
    /\ UNCHANGED <<resolverVars, diskVars, assemblyVars, concurrentVars, frameVars, audioVars, layoutVars>>
    /\ stages' = Completed("social", << "RosterComputed" >>)
    /\ UNCHANGED <<montage, debug, status>>

BatchSocialAudio ==
    /\ caller = "batch" /\ pc = "audio"
    /\ \E ttsOk \in SUBSET Speakable(heap, socialScript) :
          heap' = generate_audio(heap, socialScript, AudioSocialBatch, ttsOk)
    /\ pc' = "listening"
    /\ UNCHANGED <<caller, sessionWeb, socialScript, listeningScript, webScript,
                   roster, webRoster, balloonOk, loadable, started, parts,
                   clips, exported, exportFailed, cleaned>>
    /\ UNCHANGED <<resolverVars, diskVars, assemblyVars, concurrentVars, frameVars, audioVars, layoutVars>>
    /\ stages' = Completed("social", << "AudioSynthesized" >>)
    /\ UNCHANGED <<montage, debug, status>>

\* the return value is kept; nothing tests it before the reading part
BatchListening ==
    /\ caller = "batch" /\ pc = "listening"
    /\ ListeningPart("reading", "reading")
    /\ UNCHANGED <<caller, sessionWeb, socialScript, webScript, roster,
                   webRoster, balloonOk, loadable, started, clips, exported,
                   exportFailed, cleaned>>
    /\ UNCHANGED <<resolverVars, diskVars, assemblyVars, concurrentVars, frameVars, audioVars, layoutVars>>
    /\ stages' = Completed("social", IF parts'["listening"] /= None
                                     THEN << "ListeningAssembled" >> ELSE <<>>)
    /\ UNCHANGED <<montage, debug, status>>

BatchReading ==
    /\ caller = "batch" /\ pc = "reading"
    /\ ReadingPart("montage", "montage")
    /\ UNCHANGED <<caller, sessionWeb, socialScript, listeningScript, webScript,
                   roster, webRoster, balloonOk, loadable, started, clips,
                   exported, exportFailed, cleaned>>
    /\ UNCHANGED <<resolverVars, diskVars, assemblyVars, concurrentVars, frameVars, audioVars, layoutVars>>
    /\ stages' = Completed("social", IF parts'["reading"] /= None
                                     THEN << "ReadingAssembled" >> ELSE <<>>)
    /\ UNCHANGED <<montage, debug, status>>

\* final_social_clips: a part is appended "if <path> and os.path.exists(<path>)",
\* the separator always; "if final_social_clips:" concatenate and export
BatchClips(ps, env) ==
    (IF env.intro THEN << "intro" >> ELSE <<>>)
        \o (IF ps["listening"] /= None THEN << "listening" >> ELSE <<>>)
        \o << "separator" >>
        \o (IF ps["reading"] /= None THEN << "reading" >> ELSE <<>>)
        \o (IF env.vocab_list /\ env.vocab_clip
            THEN << "vocabulary" >> ELSE <<>>)

BatchMontage ==
    /\ caller = "batch" /\ pc = "montage"
    /\ montage' \in MontageEnvs
    /\ clips' = BatchClips(parts, montage')
    /\ \E exportOk \in BOOLEAN, overlay \in BOOLEAN, music \in BOOLEAN :
          /\ IF BatchClips(parts, montage') /= <<>> /\ exportOk
             THEN /\ exported' = exported \cup { "social" }
                  /\ UNCHANGED exportFailed
             ELSE /\ exportFailed' = exportFailed \cup { "social" }
                  /\ UNCHANGED exported
          /\ stages' = Completed("social",
                           IF BatchClips(parts, montage') /= <<>>
                           THEN MontageStages(overlay, music, exportOk)
                           ELSE <<>>)
    /\ pc' = "cleanup"
    /\ UNCHANGED <<caller, heap, sessionWeb, socialScript, listeningScript,
                   webScript, roster, webRoster, balloonOk, loadable, started,
                   parts, cleaned>>
    /\ UNCHANGED <<resolverVars, diskVars, assemblyVars, concurrentVars, frameVars, audioVars, layoutVars>>
    /\ UNCHANGED <<debug, status>>

\* "finally: video_engine.cleanup_workspace()"
BatchCleanup ==
    /\ caller = "batch" /\ pc = "cleanup"
    /\ cleaned' = TRUE
    /\ pc' = "done"
    /\ UNCHANGED <<caller, heap, sessionWeb, socialScript, listeningScript,
                   webScript, roster, webRoster, balloonOk, loadable, started,
                   parts, clips, exported, exportFailed>>
    /\ UNCHANGED <<resolverVars, diskVars, assemblyVars, concurrentVars, frameVars, audioVars, layoutVars>>
    /\ stages' = Completed("social", <<>>)
    /\ UNCHANGED <<montage, debug, status>>

NextPipeline ==
    \/ AppStart \/ AppAudio \/ AppListening \/ AppReading \/ AppMontage
    \/ AppWebStart \/ AppWebAssets \/ AppWebAssemble \/ AppCleanup
    \/ BatchWebStart \/ BatchWebAssets \/ BatchWebAssemble \/ BatchSocialStart
    \/ BatchSocialAudio \/ BatchListening \/ BatchReading \/ BatchMontage
    \/ BatchCleanup

SpecPipeline == InitPipeline /\ [][NextPipeline]_vars

\* ------------------------------------------------------------------------
\* The two variants processed concurrently: each variant is the sequence of
\* file operations its stages perform, in program order; the two sequences
\* interleave freely.
\* ------------------------------------------------------------------------
Write(path) == [ kind |-> "write", path |-> path ]
Read(path) == [ kind |-> "read", path |-> path ]

\* one operation per line index 0 .. n - 1
PerLine(n, Op(_)) == [ pos \in 1 .. n |-> Op(pos - 1) ]

\* the loop of assemble_video, line by line: the encoder reads the frame and
\* the audio and writes the segment
RECURSIVE SegmentOps(_, _, _, _)
SegmentOps(n, frames_dir, audio_dir, pos) ==
    IF pos > n THEN <<>>
    ELSE << Read(FramePath(frames_dir, pos - 1)),
            Read(AudioPath(audio_dir, pos - 1)),
            Write(SegmentPath(OutputDir, pos - 1)) >>
            \o SegmentOps(n, frames_dir, audio_dir, pos + 1)

\* assemble_video(script, output_dir="output", output_filename): segments,
\* manifest, then the concat run that reads the manifest and what it lists
AssembleOps(n, frames_dir, audio_dir, output_filename) ==
    SegmentOps(n, frames_dir, audio_dir, 1)
        \o << Write(ListPath(OutputDir)), Read(ListPath(OutputDir)) >>
        \o PerLine(n, LAMBDA i : Read(SegmentPath(OutputDir, i)))
        \o << Write(FinalPath(OutputDir, output_filename)) >>

GenerateAudioOps(n, audio_dir) == PerLine(n, LAMBDA i : Write(AudioPath(audio_dir, i)))
GenerateFramesOps(n, frames_dir) == PerLine(n, LAMBDA i : Write(FramePath(frames_dir, i)))

SocialAudioDir(c) == IF c = "app" THEN AudioSocialApp ELSE AudioSocialBatch

\* the file operations of one variant, in program order
VariantOps(v, c, n) ==
    IF v = "web"
    THEN GenerateAudioOps(n, AudioWeb)
            \o GenerateFramesOps(n, FramesWeb)
            \o AssembleOps(n, FramesWeb, AudioWeb, "temp_web_story")
    ELSE GenerateAudioOps(n, SocialAudioDir(c))
            \o GenerateFramesOps(n, FramesListening)
            \o AssembleOps(n, FramesListening, SocialAudioDir(c), "listening_part")
            \o GenerateFramesOps(n, FramesReading)
            \o AssembleOps(n, FramesReading, SocialAudioDir(c), "reading_part")

InitConcurrent ==
    /\ ResolverIdle
    /\ DiskEmpty
    /\ AssemblyIdle
    /\ PipelineIdle
    /\ FramesIdle
    /\ AudioIdle
    /\ LayoutIdle
    /\ conCaller \in { "app", "batch" }
    /\ conLines \in 1 .. MaxScript
    /\ conPc = [ v \in Variants |-> 0 ]
    /\ conWritten = [ v \in Variants |-> {} ]
    /\ conReads = {}

NextOp(v) == VariantOps(v, conCaller, conLines)[conPc[v] + 1]

\* variant v writes its next file
ConWrite(v) ==
    /\ conPc[v] < Len(VariantOps(v, conCaller, conLines))
    /\ NextOp(v).kind = "write"
    /\ files' = WriteFiles(files, { NextOp(v).path }, v)
    /\ manifest' = IF NextOp(v).path = ListPath(OutputDir)
                   THEN PerLine(conLines, LAMBDA i : SegmentPath(OutputDir, i))
                   ELSE manifest
    /\ conWritten' = [ conWritten EXCEPT ![v] = @ \cup { NextOp(v).path } ]
    /\ conPc' = [ conPc EXCEPT ![v] = @ + 1 ]
    /\ UNCHANGED <<conCaller, conLines, conReads>>
    /\ UNCHANGED <<resolverVars, assemblyVars, pipelineVars, frameVars, audioVars, layoutVars>>

\* variant v reads its next file, whoever wrote it last
ConRead(v) ==
    /\ conPc[v] < Len(VariantOps(v, conCaller, conLines))
    /\ NextOp(v).kind = "read"
    /\ conReads' = IF files[NextOp(v).path] /= v
                   THEN conReads \cup { << v, NextOp(v).path, files[NextOp(v).path] >> }
                   ELSE conReads
    /\ conPc' = [ conPc EXCEPT ![v] = @ + 1 ]
    /\ UNCHANGED <<conCaller, conLines, conWritten>>
    /\ UNCHANGED <<resolverVars, diskVars, assemblyVars, pipelineVars, frameVars, audioVars, layoutVars>>

\* dirs_to_clean, as far as the stages write there, and the stems of the
\* files kept in output/temp
CleanedDirs == { FramesWeb, FramesListening, FramesReading }
TempStems == { "temp/segment", "temp/file_list" }

\* the path is in a directory cleanup_workspace removes, or is a file
\* output/audio_*.mp3
RemovedByCleanup(path) ==
    \/ path[1] \in CleanedDirs
    \/ path[1] = OutputDir /\ path[2] \in TempStems
    \/ path[1] = OutputDir /\ path[2] = "audio"

\* the files left by cleanup_workspace()
cleanup_workspace(fs) ==
    [ path \in { q \in DOMAIN fs : ~RemovedByCleanup(q) } |-> fs[path] ]

RunEnded == \A v \in Variants : conPc[v] > Len(VariantOps(v, conCaller, conLines))

\* both variants are through: the run ends with cleanup_workspace()
ConCleanup ==
    /\ \A v \in Variants : conPc[v] = Len(VariantOps(v, conCaller, conLines))
    /\ files' = cleanup_workspace(files)
    /\ manifest' = None
    /\ conPc' = [ v \in Variants |-> conPc[v] + 1 ]
    /\ UNCHANGED <<conCaller, conLines, conWritten, conReads>>
    /\ UNCHANGED <<resolverVars, assemblyVars, pipelineVars, frameVars, audioVars, layoutVars>>

NextConcurrent ==
    \/ ConWrite("social") \/ ConRead("social")
    \/ ConWrite("web") \/ ConRead("web")
    \/ ConCleanup

SpecConcurrent == InitConcurrent /\ [][NextConcurrent]_vars

\* ------------------------------------------------------------------------
\* Roster order and frame rendering (SpecFrames): one script, rostered and
\* rendered again and again
\* ------------------------------------------------------------------------
FrameSpeakers == { Narrator, narratorLc, Herbert, HerbertWalker, Margot, Unknown }

RECURSIVE FrameScripts(_)
FrameScripts(n) ==
    IF n = 0 THEN { <<>> }
    ELSE LET shorter == FrameScripts(n - 1)
         IN  shorter \cup { Append(sc, [ speaker |-> s, text |-> Hi ]) :
                              sc \in shorter, s \in FrameSpeakers }

FrameConfigs == { << Herbert, Margot >>, << Margot, Herbert >>,
                  << Narrator, Herbert >>, << Herbert >> }

NoFrames == [ script |-> <<>>, frames |-> <<>>, written |-> {} ]

InitFrames ==
    /\ ResolverIdle
    /\ DiskEmpty
    /\ AssemblyIdle
    /\ PipelineIdle
    /\ ConcurrentIdle
    /\ AudioIdle
    /\ LayoutIdle
    /\ hashSeed \in HashSeeds
    /\ frKeys \in FrameConfigs
    /\ frScript \in FrameScripts(MaxScript)
    /\ frBalloon \in BOOLEAN
    /\ frLoadable \in SUBSET Range(frKeys)
    /\ frPhase = "idle"
    /\ frRoster = None
    /\ frPrevRoster = None
    /\ frOut = NoFrames

\* roster = get_active_roster(parsed_script, config)
FrRoster ==
    /\ frPhase = "idle"
    /\ frRoster' = ListOfSet(get_active_roster(
                                 [ pos \in DOMAIN frScript |->
                                     Get(frScript[pos], "speaker") ], frKeys),
                             hashSeed)
    /\ frPrevRoster' = frRoster
    /\ frPhase' = "rostered"
    /\ UNCHANGED <<hashSeed, frKeys, frScript, frBalloon, frLoadable, frOut>>
    /\ UNCHANGED restOfFrames

\* generate_frames(parsed_script, roster, config, output_dir)
FrRender ==
    /\ frPhase = "rostered"
    /\ frOut' =
         [ script  |-> Lines(generate_frames(frScript, [ pos \in DOMAIN frScript |-> pos ],
                                             Range(frRoster), FramesWeb,
                                             frBalloon, frLoadable),
                             [ pos \in DOMAIN frScript |-> pos ]),
           frames  |-> RenderedFrames(frScript, frRoster, frKeys, frBalloon, frLoadable),
           written |-> FramesWritten(frScript, frRoster, FramesWeb, frBalloon, frLoadable) ]
    /\ frPhase' = "rendered"
    /\ UNCHANGED <<hashSeed, frKeys, frScript, frBalloon, frLoadable, frRoster,
                   frPrevRoster>>
    /\ UNCHANGED restOfFrames

\* the caller goes on; the same script can be given again
FrReturn ==
    /\ frPhase = "rendered"
    /\ frPhase' = "idle"
    /\ frOut' = NoFrames
    /\ UNCHANGED <<hashSeed, frKeys, frScript, frBalloon, frLoadable, frRoster,
                   frPrevRoster>>
    /\ UNCHANGED restOfFrames

\* the program is run again: a new interpreter, a new hash seed
FrNewProcess ==
    /\ frPhase = "idle"
    /\ frRoster /= None
    /\ hashSeed' \in HashSeeds \ { hashSeed }
    /\ UNCHANGED <<frKeys, frScript, frBalloon, frLoadable, frPhase, frRoster,
                   frPrevRoster, frOut>>
    /\ UNCHANGED restOfFrames

NextFrames == FrRoster \/ FrRender \/ FrReturn \/ FrNewProcess

SpecFrames == InitFrames /\ [][NextFrames]_vars

\* ------------------------------------------------------------------------
\* Audio synthesis (SpecAudio): calls of generate_single_audio and of
\* generate_audio under one configuration
\* ------------------------------------------------------------------------
AudioKeyLists == { <<>>, << Herbert >>, << Herbert, Margot >>, << Narrator >>,
                   << EmptyStr >> }

AudioConfigs ==
    { [ keys |-> ks, voices |-> vs, narrator |-> n ] :
        ks \in AudioKeyLists, vs \in SUBSET KeyUniverse, n \in BOOLEAN }

AudioSpeakers == { Narrator, narratorLc, Herbert, HerbertWalker, Margot, Unknown }

\* the lines generate_audio can be handed: spoken lines, a line without
\* text, a line without speaker, and a line that already carries the audio
\* fields of an earlier generate_audio (the web copy app.generate_video makes
\* of session lines the social part has processed)
AudioLines ==
    { [ speaker |-> Narrator, text |-> Hi ],
      [ speaker |-> Herbert, text |-> Hi ],
      [ speaker |-> Herbert, text |-> EmptyStr ],
      [ speaker |-> EmptyStr, text |-> Hi ],
      [ speaker |-> Herbert, text |-> Hi,
        audio_file |-> AudioPath(AudioSocialApp, 0),
        audio_path |-> AudioPath(AudioSocialApp, 0),
        duration |-> Len(Hi) ] }

RECURSIVE AudioScripts(_)
AudioScripts(n) ==
    IF n = 0 THEN { <<>> }
    ELSE LET shorter == AudioScripts(n - 1)
         IN  shorter \cup { Append(sc, l) : sc \in shorter, l \in AudioLines }

InitAudio ==
    /\ ResolverIdle
    /\ DiskEmpty
    /\ AssemblyIdle
    /\ PipelineIdle
    /\ ConcurrentIdle
    /\ FramesIdle
    /\ LayoutIdle
    /\ auCfg \in { cfg \in AudioConfigs : cfg.voices \subseteq Range(cfg.keys) }
    /\ auPhase = "idle"
    /\ auSpeaker = None
    /\ auClient = FALSE
    /\ auSingle = NoSingle
    /\ auScript = <<>>
    /\ auTts = {}
    /\ auBatch = AudioStart(<<>>)

\* one call of generate_single_audio(text, speaker, index, config, output_dir)
AuSingle ==
    /\ auPhase = "idle"
    /\ \E speaker \in AudioSpeakers, clientOk \in BOOLEAN, synthOk \in BOOLEAN,
          mp3Ok \in BOOLEAN :
          /\ auSpeaker' = speaker
          /\ auClient' = clientOk
          /\ auSingle' = generate_single_audio(Hi, speaker, 0, auCfg, AudioWeb,
                                               clientOk, synthOk, mp3Ok)
    /\ auPhase' = "single"
    /\ UNCHANGED <<auCfg, auScript, auTts, auBatch>>
    /\ UNCHANGED restOfAudio

\* one call of generate_audio(parsed_script, config, output_dir): okCalls are
\* the lines at which the client is constructed and the TTS API answers
AuBatch ==
    /\ auPhase = "idle"
    /\ \E script \in AudioScripts(MaxScript) :
        LET ids == [ pos \in DOMAIN script |-> pos ]
        IN  \E okCalls \in SUBSET Speakable(script, ids) :
              LET synthesized ==
                      { i \in okCalls :
                          generate_single_audio(
                              Get(script[i + 1], "text"),
                              Get(script[i + 1], "speaker"), i, auCfg,
                              AudioWeb, TRUE, TRUE, TRUE).ret[1] /= None }
              IN  /\ auScript' = script
                  /\ auTts' = synthesized
                  /\ auBatch' = GenerateAudioLoop(script, ids, AudioWeb,
                                                  synthesized, 1,
                                                  AudioStart(script))
    /\ auPhase' = "batch"
    /\ UNCHANGED <<auCfg, auSpeaker, auClient, auSingle>>
    /\ UNCHANGED restOfAudio

\* the caller has taken the result
AuReturn ==
    /\ auPhase /= "idle"
    /\ auPhase' = "idle"
    /\ auSpeaker' = None
    /\ auClient' = FALSE
    /\ auSingle' = NoSingle
    /\ auScript' = <<>>
    /\ auTts' = {}
    /\ auBatch' = AudioStart(<<>>)
    /\ UNCHANGED auCfg
    /\ UNCHANGED restOfAudio

NextAudio == AuSingle \/ AuBatch \/ AuReturn

SpecAudio == InitAudio /\ [][NextAudio]_vars

\* ------------------------------------------------------------------------
\* Frame layout (SpecLayout): where generate_frames pastes one sprite and
\* where it draws the text of one line.  Pixels are integers; "//" and int()
\* of a non-negative value are both \div.
\* ------------------------------------------------------------------------
video_width == 1080
video_height == 1920
target_char_height == 900
BUFFER_SPACE == 50

\* b_target_width = int(video_width * 0.9)
BalloonWidth == (video_width * 9) \div 10

\* b_target_height, by the aspect ratio of the balloon image
BalloonHeights == { 400, 401 }

\* balloon_y = (video_height - total_stack_height) // 2
balloon_y(balloon_height) ==
    (video_height - (balloon_height + BUFFER_SPACE + target_char_height)) \div 2

char_y_top(balloon_height) == balloon_y(balloon_height) + balloon_height + BUFFER_SPACE

balloon_x == (video_width - BalloonWidth) \div 2

slot_width(num_chars) == video_width \div num_chars

\* int(slot_width * 0.95)
max_char_width(num_chars) == (slot_width(num_chars) * 95) \div 100

\* the stage layer for the roster member at index idx, whose image was loaded
\* and normalised to img_w x target_char_height.  Image.resize raises
\* ValueError when asked for a width or a height below 1.
Sprite(num_chars, idx, img_w, balloon_height, is_active) ==
    LET shrink == img_w > max_char_width(num_chars)
        new_w == IF shrink THEN max_char_width(num_chars) ELSE img_w
        new_h == IF shrink
                 THEN (target_char_height * max_char_width(num_chars)) \div img_w
                 ELSE target_char_height
        slot_center_x == (idx * slot_width(num_chars))
                             + (slot_width(num_chars) \div 2)
    IN  IF shrink /\ (new_w < 1 \/ new_h < 1)
        THEN [ raised |-> TRUE, x |-> 0, y |-> 0, width |-> 0, height |-> 0,
               alpha |-> FullAlpha ]
        ELSE [ raised |-> FALSE,
               x |-> slot_center_x - (new_w \div 2),
               y |-> char_y_top(balloon_height),
               width |-> new_w, height |-> new_h,
               alpha |-> IF is_active THEN FullAlpha ELSE HalfAlpha ]

\* the dialogue layer: box is what draw.textbbox((0, 0), wrapped_text) returns,
\* <<left, top, right, bottom>>; the text is drawn with its origin at
\* (text_x, text_y), so its bounding box is box moved by that origin
DrawText(box, balloon_height) ==
    LET text_width == box[3] - box[1]
        text_height == box[4] - box[2]
        balloon_center_x == video_width \div 2
        balloon_center_y == balloon_y(balloon_height) + (balloon_height \div 2)
        text_x == balloon_center_x - (text_width \div 2)
        text_y == balloon_center_y - (text_height \div 2)
    IN  [ text_x |-> text_x, text_y |-> text_y,
          drawn |-> << text_x + box[1], text_y + box[2],
                       text_x + box[3], text_y + box[4] >> ]

\* roster sizes: the small ones, and those around which the slot width
\* reaches 2 and 1 pixels
RosterSizes ==
    (1 .. MaxRoster) \cup { video_width \div 2, (video_width \div 2) + 1, video_width }

SlotsOf(num_chars) ==
    IF num_chars <= MaxRoster THEN 0 .. num_chars - 1 ELSE { 0, num_chars - 1 }

\* widths of a loaded sprite after it was normalised to target_char_height
SpriteWidths == { 1, 300, 342, 343, 1026, 1027, 1500 }

SpriteInputs ==
    UNION { { [ kind |-> "sprite", num_chars |-> n, idx |-> i, img_w |-> w,
                balloon_height |-> h, is_active |-> a,
                box |-> << 0, 0, 0, 0 >> ] :
                i \in SlotsOf(n), w \in SpriteWidths, h \in BalloonHeights,
                a \in BOOLEAN } : n \in RosterSizes }

\* bounding boxes of a wrapped text: offsets of the ink from the origin, and
\* sizes below and above the balloon width
TextWidths == { 1, 500, 971, 1000 }
TextHeights == { 36, 37 }

TextInputs ==
    { [ kind |-> "text", num_chars |-> 1, idx |-> 0, img_w |-> 1,
        balloon_height |-> h, is_active |-> FALSE,
        box |-> << l, t, l + tw, t + th >> ] :
        l \in 0 .. MaxOffset, t \in 0 .. MaxOffset, tw \in TextWidths,
        th \in TextHeights, h \in BalloonHeights }

InitLayout ==
    /\ ResolverIdle
    /\ DiskEmpty
    /\ AssemblyIdle
    /\ PipelineIdle
    /\ ConcurrentIdle
    /\ FramesIdle
    /\ AudioIdle
    /\ layIn \in SpriteInputs \cup TextInputs
    /\ layPhase = "idle"
    /\ layOut = NoLayout
    /\ layPrev = NoLayout

\* one pass of "for idx, char_name in enumerate(roster)" for a loaded image
LayPaste ==
    /\ layPhase = "idle" /\ layIn.kind = "sprite"
    /\ LET s == Sprite(layIn.num_chars, layIn.idx, layIn.img_w,
                       layIn.balloon_height, layIn.is_active)
       IN  layOut' = [ NoLayout EXCEPT !.raised = s.raised, !.x = s.x, !.y = s.y,
                                       !.width = s.width, !.height = s.height,
                                       !.alpha = s.alpha ]
    /\ layPhase' = "pasted"
    /\ UNCHANGED <<layIn, layPrev>>
    /\ UNCHANGED restOfLayout

\* the dialogue layer of one frame
LayText ==
    /\ layPhase = "idle" /\ layIn.kind = "text"
    /\ LET t == DrawText(layIn.box, layIn.balloon_height)
       IN  layOut' = [ NoLayout EXCEPT !.text_x = t.text_x, !.text_y = t.text_y,
                                       !.drawn = t.drawn ]
    /\ layPhase' = "drawn"
    /\ UNCHANGED <<layIn, layPrev>>
    /\ UNCHANGED restOfLayout

\* the next frame of the same script: the same roster and balloon, another
\* line, so another speaker and another text
LayNextFrame ==
    /\ layPhase \in { "pasted", "drawn" }
    /\ layIn' \in { in \in SpriteInputs \cup TextInputs :
                      /\ in.kind = layIn.kind
                      /\ in.num_chars = layIn.num_chars
                      /\ in.idx = layIn.idx
                      /\ in.img_w = layIn.img_w
                      /\ in.balloon_height = layIn.balloon_height }
    /\ layPhase' = "idle"
    /\ layPrev' = layOut
    /\ layOut' = NoLayout
    /\ UNCHANGED restOfLayout

NextLayout == LayPaste \/ LayText \/ LayNextFrame

SpecLayout == InitLayout /\ [][NextLayout]_vars

\* ------------------------------------------------------------------------
\* Properties of assemble_video (SpecAssembly)
\* ------------------------------------------------------------------------
\* the lines of the last call that carry both assets and whose encode succeeded
EncodedLines == { i \in Eligible(asmArgs.script) : i \in asmArgs.encodeOk }

\* C1: when a call builds at least one segment, file_list.txt lists exactly
\* the segments built during this call, one per successfully encoded line, in
\* increasing line index, and none of the listed files was left in output/temp
\* by an earlier call.
C1_ManifestIsThisCallInOrder ==
    (asmPhase = "returned" /\ EncodedLines /= {}) =>
        /\ manifest /= None
        /\ Len(manifest) = Cardinality(EncodedLines)
        /\ \A j \in DOMAIN manifest :
              /\ \E i \in EncodedLines : manifest[j] = SegmentPath(OutputDir, i)
              /\ manifest[j] \in DOMAIN files
              /\ files[manifest[j]] = "this call"
        /\ \A j, k \in DOMAIN manifest : j < k => manifest[j][3] < manifest[k][3]

\* a later call lists its own segment while a segment of an earlier call is
\* still in output/temp and stays unlisted
C1_Witness ==
    /\ asmPhase = "returned"
    /\ EncodedLines /= {}
    /\ manifest /= None
    /\ \E p \in DOMAIN files :
          /\ p[2] = "temp/segment"
          /\ files[p] = "earlier call"
          /\ p \notin Range(manifest)

\* C2: a line contributes a segment iff it carries an image path and an audio
\* path and its encode succeeds; a skipped or failed line does not end the
\* loop: every line of the script is visited, in order.
C2_SegmentIffAssetsAndEncode ==
    asmPhase = "returned" =>
        /\ asmOut.loop.visited = [ j \in 1 .. Len(asmArgs.script) |-> j - 1 ]
        /\ \A i \in 0 .. Len(asmArgs.script) - 1 :
              (SegmentPath(OutputDir, i) \in Range(asmOut.loop.segment_files))
                  <=> (/\ HasBothAssets(asmArgs.script[i + 1])
                       /\ i \in asmArgs.encodeOk)
        /\ \A i \in 0 .. Len(asmArgs.script) - 1 :
              (SegmentPath(OutputDir, i) \in asmOut.written)
                  <=> (i \in EncodedLines)

\* the encode of line 0 fails and line 1 still contributes a segment
C2_Witness ==
    /\ asmPhase = "returned"
    /\ Len(asmArgs.script) = 2
    /\ HasBothAssets(asmArgs.script[1])
    /\ 0 \notin asmArgs.encodeOk
    /\ asmOut.loop.segment_files = << SegmentPath(OutputDir, 1) >>

\* C3: if no line of the script carries both audio and image, the call
\* returns None, writes no concatenated file and logs exactly one error, for
\* every script length from 0 up.
C3_NoAssetsOneError ==
    (asmPhase = "returned" /\ Eligible(asmArgs.script) = {}) =>
        /\ asmOut.ret = None
        /\ FinalPath(OutputDir, asmArgs.output_filename) \notin asmOut.written
        /\ asmOut.written = {}
        /\ asmOut.errors = 1

\* two lines, both skipped for a missing asset, one error for the call
C3_Witness ==
    /\ asmPhase = "returned"
    /\ Len(asmArgs.script) = 2
    /\ Eligible(asmArgs.script) = {}
    /\ asmOut.loop.warnings = 2
    /\ asmOut.errors = 1

\* ------------------------------------------------------------------------
\* Properties of resolve_character_key and get_active_roster (SpecResolver)
\* ------------------------------------------------------------------------
EqualIgnoringCase(name, key) == Lower(key) = Lower(name)
NameStartsWithKey(name, key) == StartsWith(Lower(name), Lower(key))
KeyStartsWithName(name, key) == StartsWith(Lower(key), Lower(name))

C9_Idempotent ==
    (lastOp = "resolve" /\ retKey /= None) =>
        resolve_character_key(retKey, cfgKeys) = retKey

\* C10: the roster returned by get_active_roster never contains the key
\* "Narrator", whatever the speakers and the configured keys.
C10_NarratorNeverInRoster ==
    lastOp = "roster" => Narrator \notin retRoster

\* the keys the speakers of a script resolve to, "Narrator" lines left out
ResolvedSpeakers(speakers, keys) ==
    { resolve_character_key(speaker, keys) :
        speaker \in { sp \in Range(speakers) : sp /= Narrator } } \ { None }

\* C11: get_active_roster returns exactly the set of the keys that the
\* speakers other than "Narrator" resolve to (resolution not none): every
\* member is a configured key and a speaker that resolves adds its key.
C11_RosterIsResolvedSpeakers ==
    lastOp = "roster" =>
        /\ retRoster \subseteq Range(cfgKeys)
        /\ retRoster = ResolvedSpeakers(argSpeakers, cfgKeys)

\* ------------------------------------------------------------------------
\* Properties of whole runs (SpecPipeline)
\* ------------------------------------------------------------------------
ReturnedNone(part) == part \in DOMAIN parts /\ parts[part] = None

\* the keys generate_audio and generate_frames add to a line
StageKeys == { "audio_file", "audio_path", "duration", "image_path" }

\* C4: whenever assemble_video returns None for a story part of a variant
\* (listening or reading part of the social video, the web story), no final
\* video is exported for that variant, with either caller.
C4_NonePartAbortsVariant ==
    /\ (ReturnedNone("listening") \/ ReturnedNone("reading"))
          => "social" \notin exported
    /\ ReturnedNone("web") => "web" \notin exported

\* C5: in a run that requests both variants, a failure of one variant (an
\* assembly returning None, an export that raises) never prevents the other
\* from being attempted: at the end of the run both have been started.
C5_OtherVariantStillStarted ==
    (/\ pc = "done"
     /\ sessionWeb /= <<>>
     /\ (exportFailed /= {} \/ \E part \in DOMAIN parts : parts[part] = None))
        => started = Variants

\* C6: the social and web scripts share no line record: the lines of the
\* session's web script are changed by no stage of the social processing, and
\* when the processing of a variant starts none of its lines carries an audio
\* path, a duration or an image path.
C6_VariantsShareNoLine ==
    /\ \A id \in Range(sessionWeb) : (DOMAIN heap[id]) \cap StageKeys = {}
    /\ pc = "web_assets" =>
          \A id \in Range(webScript) : (DOMAIN heap[id]) \cap StageKeys = {}
    /\ pc = "audio" =>
          \A id \in Range(socialScript) : (DOMAIN heap[id]) \cap StageKeys = {}

\* the social montage follows the pattern [intro?, listening, separator,
\* reading, vocabulary?]
FixedOrder(cs) ==
    \E hasIntro \in BOOLEAN, hasVocab \in BOOLEAN :
        cs = (IF hasIntro THEN << "intro" >> ELSE <<>>)
                \o << "listening", "separator", "reading" >>
                \o (IF hasVocab THEN << "vocabulary" >> ELSE <<>>)

\* C17: the clip list of every exported social video is in the fixed order
\* [intro?, listening, separator, reading, vocabulary?], with listening,
\* separator and reading all present.
C17_MontageFixedOrder ==
    "social" \in exported => FixedOrder(clips)

ListeningRendered == "listening" \in DOMAIN parts

\* no step changes the text of a line of the social (reading) script
ReadingTextKept ==
    socialScript' = socialScript =>
        \A pos \in DOMAIN socialScript :
            Get(heap'[socialScript[pos]], "text")
                = Get(heap[socialScript[pos]], "text")

\* C18: the listening and reading renderings have the same number of lines,
\* the line at each index references the same audio file in both, every
\* listening line displays the placeholder text, and no step (the masking
\* included) changes the text of a reading line.
C18_TwoRenderingsOfSameAudio ==
    /\ [](ListeningRendered =>
            /\ Len(listeningScript) = Len(socialScript)
            /\ \A pos \in DOMAIN listeningScript :
                  /\ Get(heap[listeningScript[pos]], "audio_file")
                        = Get(heap[socialScript[pos]], "audio_file")
                  /\ Get(heap[listeningScript[pos]], "audio_path")
                        = Get(heap[socialScript[pos]], "audio_path")
                  /\ Get(heap[listeningScript[pos]], "text") = MaskText)
    /\ [][ReadingTextKept]_vars

\* both parts rendered from a line that has audio and its real text
C18_Witness ==
    /\ ListeningRendered
    /\ "reading" \in DOMAIN parts
    /\ \E pos \in DOMAIN socialScript :
          /\ Get(heap[socialScript[pos]], "audio_file") /= None
          /\ Get(heap[socialScript[pos]], "text") = Hi
          /\ Get(heap[listeningScript[pos]], "text") = MaskText

\* C19: a vocabulary clip is in the social montage only if the vocabulary
\* flag is enabled and the extracted vocabulary list is non-empty.
C19_VocabNeedsFlagAndList ==
    (\E pos \in DOMAIN clips : clips[pos] = "vocabulary")
        => (montage.enable_vocab /\ montage.vocab_list)

\* ------------------------------------------------------------------------
\* Properties of concurrent variants (SpecConcurrent)
\* ------------------------------------------------------------------------
\* C7: processed concurrently, the two variants write disjoint sets of paths,
\* and neither reads or concatenates a file written by the other.
C7_VariantsWriteDisjointPaths ==
    /\ conWritten["social"] \cap conWritten["web"] = {}
    /\ conReads = {}

\* ------------------------------------------------------------------------
\* Properties of roster order and frames (SpecFrames)
\* ------------------------------------------------------------------------
\* C12: two calls of get_active_roster on the same script and configuration
\* return the keys in the same order, so every character keeps its slot.
C12_RosterOrderStable ==
    (frPhase = "rostered" /\ frPrevRoster /= None) => frRoster = frPrevRoster

FullSlots(frame) == { idx \in DOMAIN frame : frame[idx].alpha = FullAlpha }

\* what the opacity rule asks of the sprite of character char on a line
\* spoken by speaker
RuleAlpha(speaker, char) ==
    IF speaker = Narrator THEN HalfAlpha
    ELSE IF resolve_character_key(speaker, frKeys) = char THEN FullAlpha
    ELSE HalfAlpha

\* C13: in every rendered frame each roster character with an image is drawn
\* in its slot; on a "Narrator" line every sprite is at 50%, otherwise the
\* sprite of the key the speaker resolves to is at 100% and all others at
\* 50%; so at most one sprite is at 100%, and none when the speaker does not
\* resolve to a roster member.
C13_OpacityRule ==
    frPhase = "rendered" =>
        \A pos \in DOMAIN frOut.frames :
            LET frame == frOut.frames[pos]
                speaker == Get(frScript[pos], "speaker")
            IN  /\ DOMAIN frame = { i \in 0 .. Len(frRoster) - 1 :
                                      frRoster[i + 1] \in frLoadable }
                /\ \A idx \in DOMAIN frame :
                      /\ frame[idx].char = frRoster[idx + 1]
                      /\ frame[idx].alpha = RuleAlpha(speaker, frame[idx].char)
                /\ Cardinality(FullSlots(frame)) <= 1
                /\ resolve_character_key(speaker, frKeys) \notin Range(frRoster)
                      => FullSlots(frame) = {}

\* a frame with two sprites, the speaker's at 100% and the other at 50%
C13_Witness ==
    /\ frPhase = "rendered"
    /\ \E pos \in DOMAIN frOut.frames :
          /\ Cardinality(DOMAIN frOut.frames[pos]) = 2
          /\ Cardinality(FullSlots(frOut.frames[pos])) = 1

\* C20: when the balloon image is missing generate_frames returns the script
\* unmodified: no line gains an image path and no frame file is written.
C20_MissingBalloonIsFatal ==
    (frPhase = "rendered" /\ ~frBalloon) =>
        /\ frOut.script = frScript
        /\ \A pos \in DOMAIN frOut.script :
              "image_path" \notin DOMAIN frOut.script[pos]
        /\ frOut.written = {}
        /\ frOut.frames = <<>>

\* the balloon is the only thing missing: the roster has a loadable image
C20_Witness ==
    /\ frPhase = "rendered"
    /\ ~frBalloon
    /\ frScript /= <<>>
    /\ Range(frRoster) \cap frLoadable /= {}

\* ------------------------------------------------------------------------
\* Properties of audio synthesis (SpecAudio)
\* ------------------------------------------------------------------------
\* C14: generate_audio returns a script of the same length that holds the
\* same line records at the same positions, and the audio file written for
\* the line at position i is audio_<i>, also when earlier lines were skipped.
C14_AudioKeepsLinesAndIndices ==
    auPhase = "batch" =>
        /\ auBatch.updated_script = [ pos \in DOMAIN auScript |-> pos ]
        /\ DOMAIN auBatch.heap = DOMAIN auScript
        /\ auBatch.written = { AudioPath(AudioWeb, i) : i \in auTts }
        /\ \A i \in auTts :
              Get(auBatch.heap[i + 1], "audio_file") = AudioPath(AudioWeb, i)

\* the first line is skipped and the second is synthesized as audio_1
C14_Witness ==
    /\ auPhase = "batch"
    /\ Len(auScript) >= 2
    /\ ~Truthy(Get(auScript[1], "text"))
    /\ 1 \in auTts

AudioKeys == { "audio_file", "audio_path", "duration" }

\* C15: after generate_audio a line carries audio fields if and only if its
\* speaker and text are non-empty and synthesis returned a path for it; every
\* other line is returned unchanged; a failed line does not stop the loop.
C15_AudioFieldsIffSynthesized ==
    auPhase = "batch" =>
        /\ Len(auBatch.updated_script) = Len(auScript)
        /\ \A pos \in DOMAIN auScript :
              /\ ((DOMAIN auBatch.heap[pos]) \cap AudioKeys /= {})
                    <=> (pos - 1) \in auTts
              /\ (pos - 1) \notin auTts => auBatch.heap[pos] = auScript[pos]

\* the voice the policy names for a speaker
PolicyVoice(speaker, cfg) ==
    IF speaker = Narrator THEN NarratorVoice(cfg)
    ELSE LET key == resolve_character_key(speaker, cfg.keys)
         IN  IF key /= None /\ CharVoice(cfg, key) /= None
             THEN CharVoice(cfg, key)
             ELSE NarratorVoice(cfg)

\* C16: generate_single_audio uses the narrator voice for "Narrator",
\* otherwise the voice of the character the speaker resolves to when it has
\* one, otherwise the narrator voice; with no voice at all it returns
\* (none, 0.0), does not call the TTS service and writes no file.
C16_VoicePolicy ==
    (auPhase = "single" /\ auClient) =>
        /\ auSingle.voice = PolicyVoice(auSpeaker, auCfg)
        /\ PolicyVoice(auSpeaker, auCfg) = None =>
              /\ auSingle.ret = NoAudio
              /\ ~auSingle.synthesize
              /\ auSingle.written = {}

\* ------------------------------------------------------------------------
\* Properties of missing character images (SpecFrames)
\* ------------------------------------------------------------------------
\* C21: whatever roster members have no loadable image (up to all of them),
\* generate_frames with a loadable balloon renders one frame per line, writes
\* frame_<i> for every line and sets the image path on every line. Stated
\* for a roster with at least one member, so that only images are missing.
C21_MissingImageNotFatal ==
    (frPhase = "rendered" /\ frBalloon /\ frRoster /= <<>>) =>
        /\ Len(frOut.frames) = Len(frScript)
        /\ frOut.written = { FramePath(FramesWeb, pos - 1) : pos \in DOMAIN frScript }
        /\ \A pos \in DOMAIN frOut.script :
              Get(frOut.script[pos], "image_path") = FramePath(FramesWeb, pos - 1)

\* ------------------------------------------------------------------------
\* Properties of segment and video lengths (SpecAssembly)
\* ------------------------------------------------------------------------
\* every line has both assets, every encode and the concat run succeed
AllLinesEncoded ==
    /\ asmPhase = "returned"
    /\ Len(asmArgs.script) >= 1
    /\ Eligible(asmArgs.script) = 0 .. Len(asmArgs.script) - 1
    /\ asmArgs.encodeOk = Eligible(asmArgs.script)
    /\ asmArgs.concatOk

RECURSIVE AudioTotal(_)
AudioTotal(script) ==
    IF script = <<>> THEN 0
    ELSE asmMedia.audio[LineAudio(Head(script))] + AudioTotal(Tail(script))

\* C22: when all N lines have audio and image and every encode succeeds,
\* assemble_video returns the path of a video concatenated from N segments,
\* segment i as long as the audio file of line i, the video as long as the
\* N audio files together.
C22_LengthIsSumOfAudio ==
    AllLinesEncoded =>
        /\ asmOut.ret = FinalPath(OutputDir, asmArgs.output_filename)
        /\ asmOut.list = [ pos \in DOMAIN asmArgs.script |->
                             SegmentPath(OutputDir, pos - 1) ]
        /\ \A pos \in DOMAIN asmArgs.script :
              asmMedia.video[SegmentPath(OutputDir, pos - 1)]
                  = asmMedia.audio[LineAudio(asmArgs.script[pos])]
        /\ asmMedia.video[asmOut.ret] = AudioTotal(asmArgs.script)

\* two lines whose audio files differ in length
C22_Witness ==
    /\ AllLinesEncoded
    /\ Len(asmArgs.script) = 2
    /\ asmMedia.audio[LineAudio(asmArgs.script[1])]
          /= asmMedia.audio[LineAudio(asmArgs.script[2])]
    /\ asmMedia.video[asmOut.ret] = 3

\* ------------------------------------------------------------------------
\* Properties of progress reporting (SpecAssembly)
\* ------------------------------------------------------------------------
\* C23: a stage reports progress once per line, in line order, with value
\* (i + 1) / N for line i, also for a line that is skipped or whose encode
\* fails; stated here for assemble_video on a script of N >= 1 lines, so the
\* last value reported is N / N.
C23_ProgressAfterEveryLine ==
    (asmPhase = "returned" /\ Len(asmArgs.script) >= 1) =>
        asmOut.loop.progress =
            [ j \in 1 .. Len(asmArgs.script) |-> << j, Len(asmArgs.script) >> ]

\* ------------------------------------------------------------------------
\* Properties of progress, cleanup and stage order of whole runs
\* (SpecPipeline)
\* ------------------------------------------------------------------------
\* the bar value before a step followed by the values the step reported
StatusRun == << status.before >> \o status.calls

\* C24: in a run of app.generate_video every value passed to update_status
\* lies between 0 and 100 percent and is not lower than any value reported
\* before it in the same run, on the success and on the failure paths.
C24_ProgressNeverDecreases ==
    caller = "app" =>
        /\ \A k \in DOMAIN StatusRun : StatusRun[k] \in 0 .. 100
        /\ \A k \in 1 .. Len(StatusRun) - 1 : StatusRun[k] <= StatusRun[k + 1]

\* the web part of a run has been exported after the social part
C24_Witness ==
    /\ caller = "app"
    /\ exported = Variants
    /\ StatusRun = << 85, 90, 95, 98, 100 >>

\* C25: a run that has ended, on whatever path, has cleaned the workspace
\* exactly if the debug flag is not set.
C25_CleanupUnlessDebug ==
    pc = "done" => (cleaned <=> ~debug)

\* the position of a stage in the order of the pipeline; the story of the web
\* variant is assembled where the two parts of the social variant are
StageRank(name) ==
    CASE name = "NotStarted" -> 0
      [] name = "RosterComputed" -> 1
      [] name = "AudioSynthesized" -> 2
      [] name = "ListeningAssembled" -> 3
      [] name = "ReadingAssembled" -> 4
      [] name = "StoryAssembled" -> 4
      [] name = "Concatenated" -> 5
      [] name = "Branded" -> 6
      [] name = "MusicApplied" -> 7
      [] name = "TitleOverlaid" -> 8
      [] name = "Exported" -> 9

\* the last stage the variant of the last step had completed before the step,
\* followed by the stages the step completed
StageRun == << stages.before[stages.variant] >> \o stages.names

Assembled(part) == part \in DOMAIN parts /\ parts[part] /= None

\* the stages of the pipeline order that have to be complete before a stage
\* starts
PredecessorsDone(k) ==
    LET name == StageRun[k]
        prev == StageRun[k - 1]
    IN  CASE name = "RosterComputed" -> prev = "NotStarted"
          [] name = "AudioSynthesized" -> prev = "RosterComputed"
          [] name \in { "ListeningAssembled", "ReadingAssembled", "StoryAssembled" }
               -> StageRank(prev) >= StageRank("AudioSynthesized")
          [] name = "Concatenated"
               -> IF stages.variant = "social"
                  THEN Assembled("listening") /\ Assembled("reading")
                  ELSE Assembled("web")
          [] name \in { "Branded", "MusicApplied", "TitleOverlaid", "Exported" }
               -> StageRank(prev) >= StageRank("Concatenated")

\* C29: the stages of a variant are completed only in the order
\* RosterComputed, AudioSynthesized, ListeningAssembled / ReadingAssembled,
\* Concatenated, Branded, MusicApplied, TitleOverlaid, Exported, each at most
\* once and none before its predecessors are complete; so branding and music
\* come after the concatenation and nothing follows the export.
C29_StagesInOrder ==
    \A k \in 2 .. Len(StageRun) :
        /\ StageRank(StageRun[k - 1]) < StageRank(StageRun[k])
        /\ PredecessorsDone(k)

\* ------------------------------------------------------------------------
\* Properties of the workspace cleanup (SpecConcurrent)
\* ------------------------------------------------------------------------
\* C26: after the cleanup_workspace that ends a run, none of the files the
\* social and the web processing wrote (audio, frames, segments, manifest,
\* part files) is left on disk.
C26_CleanupRemovesAllArtifacts ==
    RunEnded =>
        (DOMAIN files) \cap (conWritten["social"] \cup conWritten["web"]) = {}

\* ------------------------------------------------------------------------
\* Properties of the frame layout (SpecLayout)
\* ------------------------------------------------------------------------
Abs(n) == IF n < 0 THEN 0 - n ELSE n

\* twice the centre of the balloon as pasted, and of the text as drawn
BalloonCentre2 ==
    << (2 * balloon_x) + BalloonWidth,
       (2 * balloon_y(layIn.balloon_height)) + layIn.balloon_height >>

DrawnCentre2 ==
    << layOut.drawn[1] + layOut.drawn[3], layOut.drawn[2] + layOut.drawn[4] >>

\* C27: the bounding box of a text narrower than the balloon, as drawn, has
\* its centre within one pixel of the balloon's centre, horizontally and
\* vertically, whatever box the font measurement returned.
C27_TextCentredOnBalloon ==
    (layPhase = "drawn" /\ layIn.box[3] - layIn.box[1] < BalloonWidth) =>
        /\ Abs(DrawnCentre2[1] - BalloonCentre2[1]) <= 2
        /\ Abs(DrawnCentre2[2] - BalloonCentre2[2]) <= 2

\* C28: a loaded roster member is pasted with a width of at most 95% of the
\* slot width and inside its own slot [idx * W, (idx + 1) * W), with its top
\* at the fixed character top; its place is the same in the frame before.
C28_SpriteStaysInItsSlot ==
    layPhase = "pasted" =>
        LET W == slot_width(layIn.num_chars)
        IN  /\ ~layOut.raised
            /\ layOut.width >= 1
            /\ 100 * layOut.width <= 95 * W
            /\ layIn.idx * W <= layOut.x
            /\ layOut.x + layOut.width <= (layIn.idx + 1) * W
            /\ layOut.y = char_y_top(layIn.balloon_height)
            /\ layPrev /= NoLayout =>
                  /\ layPrev.x = layOut.x
                  /\ layPrev.y = layOut.y
                  /\ layPrev.width = layOut.width

\* ------------------------------------------------------------------------
\* Properties of scripts without a roster image (SpecPipeline)
\* ------------------------------------------------------------------------
\* the script a part is assembled from, and the roster its frames were
\* rendered with
PartScript(name) ==
    CASE name = "listening" -> listeningScript
      [] name = "reading" -> socialScript
      [] name = "web" -> webScript

PartRoster(name) == IF name = "web" THEN webRoster ELSE roster

\* C30: a part rendered with an empty roster has an image path on none of
\* its lines and assemble_video returned none for it, also when the balloon
\* and the audio are there; and assemble_video returned a path only for a
\* part whose roster has a character with a loaded image.
C30_NoRosterImageNoVideo ==
    \A name \in DOMAIN parts :
        /\ PartRoster(name) = {} =>
              /\ \A pos \in DOMAIN PartScript(name) :
                    Get(heap[PartScript(name)[pos]], "image_path") = None
              /\ parts[name] = None
        /\ parts[name] /= None => PartRoster(name) \cap loadable /= {}

\* a narrator-only or unresolved script whose lines all have audio, with the
\* balloon and a character image on disk, went through generate_frames and
\* assemble_video
C30_Witness ==
    /\ "listening" \in DOMAIN parts
    /\ roster = {}
    /\ balloonOk
    /\ loadable /= {}
    /\ listeningScript /= <<>>
    /\ \A pos \in DOMAIN listeningScript :
          Get(heap[listeningScript[pos]], "audio_file") /= None
    /\ parts["listening"] = None

====
